---- MODULE Spec2Model ----
(***************************************************************************)
(* Nyx Monitor: monitoring, correlation and response engine.               *)
(* State machine of RuntimeState (src-tauri/src/app_state.rs), the         *)
(* response engine (response_engine.rs), the detection functions           *)
(* (detection/mod.rs) and the tick loop (monitoring/mod.rs).               *)
(***************************************************************************)
EXTENDS Integers, Sequences, FiniteSets, TLC

(***************************************************************************)
(* Strings are sequences of one-character strings, so that to_lowercase,   *)
(* starts_with and contains are computed and not assumed.                  *)
(* Option<T> is <<>> (None) or <<x>> (Some(x)).                            *)
(***************************************************************************)
None == <<>>

Some(x) == <<x>>

IsSome(o) == Len(o) = 1

Unwrap(o) == o[1]

\* char::to_lowercase on the ASCII range
ToLowerChar(c) ==
    CASE c = "A" -> "a" [] c = "B" -> "b" [] c = "C" -> "c" [] c = "D" -> "d"
      [] c = "E" -> "e" [] c = "F" -> "f" [] c = "G" -> "g" [] c = "H" -> "h"
      [] c = "I" -> "i" [] c = "J" -> "j" [] c = "K" -> "k" [] c = "L" -> "l"
      [] c = "M" -> "m" [] c = "N" -> "n" [] c = "O" -> "o" [] c = "P" -> "p"
      [] c = "Q" -> "q" [] c = "R" -> "r" [] c = "S" -> "s" [] c = "T" -> "t"
      [] c = "U" -> "u" [] c = "V" -> "v" [] c = "W" -> "w" [] c = "X" -> "x"
      [] c = "Y" -> "y" [] c = "Z" -> "z" [] OTHER -> c

to_lowercase(s) == [ i \in 1..Len(s) |-> ToLowerChar(s[i]) ]

\* str::starts_with (the arguments are bound to their values first)
starts_with(str, prefix) ==
    \E s \in {str}, p \in {prefix} :
        /\ Len(p) <= Len(s)
        /\ \A i \in 1..Len(p) : s[i] = p[i]

\* str::contains
contains(str, pattern) ==
    \E s \in {str}, p \in {pattern} :
        \E k \in 0..(Len(s) - Len(p)) : \A i \in 1..Len(p) : s[k + i] = p[i]

\* string literals used by the program
DotExe == <<".","e","x","e">>

S_system == <<"s","y","s","t","e","m">>

S_registry == <<"r","e","g","i","s","t","r","y">>

S_smss == <<"s","m","s","s">> \o DotExe

S_csrss == <<"c","s","r","s","s">> \o DotExe

S_wininit == <<"w","i","n","i","n","i","t">> \o DotExe

S_services == <<"s","e","r","v","i","c","e","s">> \o DotExe

S_lsass == <<"l","s","a","s","s">> \o DotExe

S_winlogon == <<"w","i","n","l","o","g","o","n">> \o DotExe

S_explorer == <<"e","x","p","l","o","r","e","r">> \o DotExe

S_dwm == <<"d","w","m">> \o DotExe

Bsl == <<"\\">>

S_windows == <<"w","i","n","d","o","w","s">>

S_system32 == <<"s","y","s","t","e","m","3","2">>

S_syswow64 == <<"s","y","s","w","o","w","6","4">>

S_temp == <<"t","e","m","p">>

S_appdata == <<"a","p","p","d","a","t","a">>

S_local == <<"l","o","c","a","l">>

S_roaming == <<"r","o","a","m","i","n","g">>

S_c_windows_system32 == <<"c",":">> \o Bsl \o S_windows \o Bsl \o S_system32 \o Bsl

CRITICAL_PROCESS_NAMES ==
    { S_system, S_registry, S_smss, S_csrss, S_wininit, S_services,
      S_lsass, S_winlogon, S_explorer, S_dwm }

\* is_critical_process comparing the name as given, without lowercasing it
is_critical_process_exact_case(name, path) ==
    IF \E item \in CRITICAL_PROCESS_NAMES : item = name
    THEN TRUE
    ELSE IF IsSome(path)
         THEN LET lower == to_lowercase(Unwrap(path)) IN
              /\ starts_with(lower, S_c_windows_system32)
              /\ \/ contains(lower, Bsl \o S_csrss)
                 \/ contains(lower, Bsl \o S_wininit)
                 \/ contains(lower, Bsl \o S_services)
                 \/ contains(lower, Bsl \o S_lsass)
                 \/ contains(lower, Bsl \o S_winlogon)
         ELSE FALSE

is_critical_process(name, path) ==
    LET lower_name == to_lowercase(name) IN
    IF \E item \in CRITICAL_PROCESS_NAMES : item = lower_name
    THEN TRUE
    ELSE IF IsSome(path)
         THEN LET lower == to_lowercase(Unwrap(path)) IN
              /\ starts_with(lower, S_c_windows_system32)
              /\ \/ contains(lower, Bsl \o S_csrss)
                 \/ contains(lower, Bsl \o S_wininit)
                 \/ contains(lower, Bsl \o S_services)
                 \/ contains(lower, Bsl \o S_lsass)
                 \/ contains(lower, Bsl \o S_winlogon)
         ELSE FALSE


(***************************************************************************)
(* detection/mod.rs                                                        *)
(***************************************************************************)
S_powershell == <<"p","o","w","e","r","s","h","e","l","l">> \o DotExe

S_cmd == <<"c","m","d">> \o DotExe

S_wscript == <<"w","s","c","r","i","p","t">> \o DotExe

S_cscript == <<"c","s","c","r","i","p","t">> \o DotExe

S_rundll32 == <<"r","u","n","d","l","l","3","2">> \o DotExe

S_mshta == <<"m","s","h","t","a">> \o DotExe

S_winword == <<"w","i","n","w","o","r","d">> \o DotExe

S_excel == <<"e","x","c","e","l">> \o DotExe

S_powerpnt == <<"p","o","w","e","r","p","n","t">> \o DotExe

S_outlook == <<"o","u","t","l","o","o","k">> \o DotExe

S_acrord32 == <<"a","c","r","o","r","d","3","2">> \o DotExe

SCRIPT_HOSTS == { S_powershell, S_cmd, S_wscript, S_cscript, S_rundll32, S_mshta }

OFFICE_PARENTS == { S_winword, S_excel, S_powerpnt, S_outlook, S_acrord32 }

Min(a, b) == IF a < b THEN a ELSE b

Max(a, b) == IF a > b THEN a ELSE b

\* u8::saturating_add
saturating_add_u8(a, b) == Min(255, a + b)

R_TEMP == "Executable running from temporary directory"

R_ROAMING == "Script host launched from roaming profile path"

R_OFFICE == "Suspicious parent-child relation: office app spawning script host"

R_UNSIGNED == "Binary is unsigned or signature is invalid"

R_CPU == "Sustained CPU spike above baseline (performance anomaly)"

ProfileThresholds(profile) ==
    CASE profile = "Conservative" -> <<85, 45>>
      [] profile = "Balanced"     -> <<70, 35>>
      [] profile = "Aggressive"   -> <<55, 25>>

\* is_signed is Option<bool>; parent_name is Option<String>
assess_process(metric, parent_name, is_signed, cpu_spike, profile) ==
    LET name   == to_lowercase(metric.name)
        parent == IF IsSome(parent_name) THEN to_lowercase(Unwrap(parent_name)) ELSE <<>>
        path_lower == IF IsSome(metric.exe_path)
                      THEN to_lowercase(Unwrap(metric.exe_path)) ELSE <<>>
        hasTemp ==
            /\ IsSome(metric.exe_path)
            /\ \/ contains(path_lower, Bsl \o S_appdata \o Bsl \o S_local \o Bsl \o S_temp)
               \/ contains(path_lower, Bsl \o S_windows \o Bsl \o S_temp)
               \/ contains(path_lower, Bsl \o S_temp \o Bsl)
        hasRoaming ==
            /\ IsSome(metric.exe_path)
            /\ contains(path_lower, Bsl \o S_appdata \o Bsl \o S_roaming \o Bsl)
            /\ name \in SCRIPT_HOSTS
        hasOffice == name \in SCRIPT_HOSTS /\ parent \in OFFICE_PARENTS
        unsigned  == is_signed = Some(FALSE)
        s1 == IF hasTemp THEN saturating_add_u8(0, 45) ELSE 0
        s2 == IF hasRoaming THEN saturating_add_u8(s1, 30) ELSE s1
        s3 == IF hasOffice THEN saturating_add_u8(s2, 40) ELSE s2
        s4 == IF unsigned THEN saturating_add_u8(s3, 35) ELSE s3
        score == IF cpu_spike THEN saturating_add_u8(s4, 12) ELSE s4
        reasons == (IF hasTemp THEN <<R_TEMP>> ELSE <<>>)
                   \o (IF hasRoaming THEN <<R_ROAMING>> ELSE <<>>)
                   \o (IF hasOffice THEN <<R_OFFICE>> ELSE <<>>)
                   \o (IF unsigned THEN <<R_UNSIGNED>> ELSE <<>>)
                   \o (IF cpu_spike THEN <<R_CPU>> ELSE <<>>)
        th == ProfileThresholds(profile)
        level == IF score >= th[1] THEN "Suspicious"
                 ELSE IF score >= th[2] THEN "Unknown"
                 ELSE "Legitimate"
    IN  [ level |-> level, score |-> score, reasons |-> reasons,
          \* confidence in hundredths: (score / 100).clamp(0.1, 0.99)
          confidence |-> Max(10, Min(99, score)) ]

\* mutation of classify_threat_verdict: the internal flag is consulted last
classify_threat_verdict_internal_last(score, base_level, trust_level, correlation_count, internal_process) ==
    IF base_level = "Legitimate"
    THEN (IF score >= 55 THEN "LowRisk" ELSE "Benign")
    ELSE IF score >= 95 /\ base_level = "Suspicious" /\ trust_level = "Unknown"
            /\ correlation_count >= 2
    THEN "ConfirmedMalicious"
    ELSE IF score >= 86 /\ base_level = "Suspicious" /\ trust_level = "Unknown"
            /\ correlation_count >= 1
    THEN "LikelyMalicious"
    ELSE IF score >= 70 /\ base_level = "Suspicious" THEN "Suspicious"
    ELSE IF internal_process THEN "Benign"
    ELSE IF score >= 35 THEN "LowRisk"
    ELSE "Benign"

\* mutation of classify_threat_verdict: ConfirmedMalicious from score 90
classify_threat_verdict_confirmed_at_90(score, base_level, trust_level, correlation_count, internal_process) ==
    IF internal_process THEN "Benign"
    ELSE IF base_level = "Legitimate"
         THEN (IF score >= 55 THEN "LowRisk" ELSE "Benign")
    ELSE IF score >= 90 /\ base_level = "Suspicious" /\ trust_level = "Unknown"
            /\ correlation_count >= 2
    THEN "ConfirmedMalicious"
    ELSE IF score >= 86 /\ base_level = "Suspicious" /\ trust_level = "Unknown"
            /\ correlation_count >= 1
    THEN "LikelyMalicious"
    ELSE IF score >= 70 /\ base_level = "Suspicious" THEN "Suspicious"
    ELSE IF score >= 35 THEN "LowRisk"
    ELSE "Benign"

classify_threat_verdict(score, base_level, trust_level, correlation_count, internal_process) ==
    IF internal_process THEN "Benign"
    ELSE IF base_level = "Legitimate"
         THEN (IF score >= 55 THEN "LowRisk" ELSE "Benign")
    ELSE LET untrusted == trust_level = "Unknown" IN
         IF score >= 95 /\ base_level = "Suspicious" /\ untrusted /\ correlation_count >= 2
         THEN "ConfirmedMalicious"
         ELSE IF score >= 86 /\ base_level = "Suspicious" /\ untrusted /\ correlation_count >= 1
         THEN "LikelyMalicious"
         ELSE IF score >= 70 /\ base_level = "Suspicious" THEN "Suspicious"
         ELSE IF score >= 35 THEN "LowRisk"
         ELSE "Benign"

\* the sum of s[lo..hi], halving the range
RECURSIVE SumRange(_, _, _)
SumRange(s, lo, hi) ==
    IF lo > hi THEN 0
    ELSE IF lo = hi THEN s[lo]
    ELSE LET mid == (lo + hi) \div 2
         IN  SumRange(s, lo, mid) + SumRange(s, mid + 1, hi)

SumSeq(s) == SumRange(s, 1, Len(s))

compute_risk_score(base_score, correlation_bonuses) ==
    LET correlation_total == Min(SumSeq(correlation_bonuses), 22)
        total == Min(65535, base_score + correlation_total)
    IN  Min(total, 100)

(***************************************************************************)
(* Time.  The wall clock (Utc::now) and the monotonic clock (Instant::now) *)
(* advance together; one second is SubSec clock units, so that             *)
(* Duration::num_seconds / as_secs truncate as in the program.             *)
(***************************************************************************)
SubSec == 2

\* chrono::Duration::num_seconds: whole seconds, truncated toward zero
num_seconds(d) == IF d >= 0 THEN d \div SubSec ELSE -((-d) \div SubSec)

Abs(x) == IF x < 0 THEN -x ELSE x

\* timestamps are written with to_rfc3339 and parsed back with
\* parse_from_rfc3339; a timestamp is Some(instant) when it parses
is_recent(timestamp, window_seconds, now_utc) ==
    IF IsSome(timestamp)
    THEN Abs(num_seconds(now_utc - Unwrap(timestamp))) <= window_seconds
    ELSE FALSE

\* Alert titles: format!("<prefix>{}", metric.name)
T_SUSPICIOUS == "Suspicious process detected: "

T_CPU == "High CPU sustained in "

T_CORRELATED == "Correlated threat signal in "

T_RESPONSE == "Automatic response executed on "

\* an evidence / rule_hits entry is a tuple of the pieces it is formatted from
Ev(reasons) == [i \in 1..Len(reasons) |-> <<reasons[i]>>]

build_alert(metric, assessment, cpu_spike, now_utc) ==
    IF assessment.level # "Suspicious" /\ ~cpu_spike
    THEN None
    ELSE Some([ id |-> << (IF cpu_spike THEN "cpu_spike" ELSE "suspicious_process"),
                           metric.pid, now_utc >>,
                alert_type |-> IF cpu_spike THEN "cpu_spike" ELSE "suspicious_process",
                severity |-> IF cpu_spike THEN "Warn" ELSE "Critical",
                pid |-> Some(metric.pid),
                title |-> << (IF cpu_spike THEN T_CPU ELSE T_SUSPICIOUS), metric.name >>,
                evidence |-> Ev(assessment.reasons),
                timestamp |-> Some(now_utc),
                status |-> "Active" ])

build_correlated_alert(metric, score, verdict, correlation_reasons, now_utc) ==
    IF \/ score < 88
       \/ Len(correlation_reasons) < 2
       \/ metric.suspicion.level # "Suspicious"
       \/ metric.trust_level # "Unknown"
    THEN None
    ELSE Some([ id |-> <<"correlated_threat", metric.pid, now_utc>>,
                alert_type |-> "correlated_threat",
                severity |-> IF score >= 90 THEN "Critical" ELSE "Warn",
                pid |-> Some(metric.pid),
                title |-> <<T_CORRELATED, metric.name>>,
                evidence |-> Ev(metric.suspicion.reasons) \o Ev(correlation_reasons)
                             \o << <<"Risk score: ", score>>, <<"Verdict: ", verdict>> >>,
                timestamp |-> Some(now_utc),
                status |-> "Active" ])


(***************************************************************************)
(* Maps (HashMap) are functions; the empty map has an empty domain.        *)
(***************************************************************************)
EmptyMap == [k \in {} |-> 0]

Put(f, k, v) == [x \in (DOMAIN f) \cup {k} |-> IF x = k THEN v ELSE f[x]]

Retain(f, kept) == [x \in (DOMAIN f \cap kept) |-> f[x]]

(***************************************************************************)
(* Bounds of the model and the inputs the environment can supply.          *)
(***************************************************************************)
MaxPid == 1

MaxTicks == 2

\* the clock of a behaviour stops after this many seconds
MaxSeconds == 2

MaxRecords == 1

Pids == 1..MaxPid

ActionTypes == { "SuspendProcess", "BlockProcessNetwork", "TerminateProcess" }

\* executable images the process sensor can report
P_lsass == <<"C",":">> \o Bsl \o <<"W","i","n","d","o","w","s">> \o Bsl
           \o <<"S","y","s","t","e","m","3","2">> \o Bsl \o S_lsass

P_temp_a == <<"C",":">> \o Bsl \o <<"T","e","m","p">> \o Bsl \o <<"a">> \o DotExe

P_roaming_cmd == <<"C",":">> \o Bsl \o <<"A","p","p","D","a","t","a">> \o Bsl
                 \o <<"R","o","a","m","i","n","g">> \o Bsl \o <<"T","e","m","p">>
                 \o Bsl \o S_cmd

P_temp_nyx == <<"C",":">> \o Bsl \o <<"T","e","m","p">> \o Bsl
              \o <<"n","y","x","-","m","o","n","i","t","o","r">> \o DotExe

Images ==
    { [ name |-> <<"L","S","A","S","S",".","E","X","E">>, exe_path |-> Some(P_temp_a) ],
      [ name |-> S_cmd, exe_path |-> Some(P_roaming_cmd) ],
      [ name |-> <<"e","v","i","l">> \o DotExe, exe_path |-> None ] }

\* what the platform's authenticode check reports for a path
SignedPaths == { P_lsass }

is_binary_signed(path) == path \in SignedPaths

\* ProcessCollector::collect: one stub per live process
Stub(pid, image) ==
    [ pid |-> pid,
      ppid |-> IF pid > 1 THEN Some(pid - 1) ELSE None,
      name |-> image.name,
      exe_path |-> image.exe_path,
      cpu_pct |-> 0,
      trust_level |-> "Unknown",
      trust_label |-> None,
      suspicion |-> [ level |-> "Unknown", score |-> 0, reasons |-> <<>>, confidence |-> 0 ],
      risk_score |-> 0,
      verdict |-> "Benign" ]

RECURSIVE ListOf(_, _)
ListOf(choice, pid) ==
    IF pid > MaxPid THEN <<>>
    ELSE (IF choice[pid] = None THEN <<>> ELSE << Stub(pid, Unwrap(choice[pid])) >>)
         \o ListOf(choice, pid + 1)

collect_process_metrics ==
    { ListOf(choice, 1) : choice \in [Pids -> {None} \cup { Some(i) : i \in Images }] }

\* ResponsePolicy::secure_default
secure_default ==
    [ mode |-> "Audit", auto_constrain_threshold |-> 95, safe_mode |-> TRUE,
      allow_terminate |-> FALSE, cooldown_seconds |-> 180 ]

Thresholds == { 4, 95 }

Cooldowns == { 3 }

\* policies the UI can submit: the default, and the Constrain policies
ConstrainPolicies ==
    [ mode : { "Constrain" }, auto_constrain_threshold : Thresholds, safe_mode : BOOLEAN,
      allow_terminate : BOOLEAN, cooldown_seconds : Cooldowns ]

PolicyInputs == { secure_default } \cup ConstrainPolicies


(***************************************************************************)
(* State                                                                   *)
(***************************************************************************)
VARIABLES
    now,                \* Utc::now() / Instant::now(), in 1/SubSec seconds
    process_metrics,    \* RuntimeStateInner.process_metrics (stored snapshot)
    response_policy,    \* RuntimeStateInner.response_policy
    response_store,     \* ResponseActionStore.actions
    action_cooldowns,   \* RuntimeStateInner.action_cooldowns
    store,              \* AlertStore.alerts
    dismissed_alerts,   \* RuntimeStateInner.dismissed_alerts
    event_store,        \* rows of the events table, in insertion order
    event_counter,      \* EVENT_COUNTER of next_event_id
    signature_cache,    \* RuntimeStateInner.signature_cache
    cpu_history,        \* RuntimeStateInner.cpu_history
    cpu_spike_config,   \* RuntimeStateInner.cpu_spike_config
    detection_profile,  \* RuntimeStateInner.detection_profile
    tick,               \* locals of the loop in start_background_tasks
    tick_pc,
    loop_started,
    wake_at,
    metrics,
    cursor,
    signature_probes,
    previous_metrics,
    correlation,
    pending_auto,       \* action chosen by maybe_run_auto_response, not yet run
    last_response,      \* outcome of the latest run_response_action call
    last_auto,          \* the trigger decision of the latest maybe_run_auto_response call
    last_offers,        \* the add_alert_if_new calls of the latest step
    dispatch_log,       \* history: when each (pid, action) was last dispatched automatically
    last_call,          \* the latest direct call of an operation: its name, inputs and result
    cpu_log,            \* history: every sample passed to update_cpu_and_check_spike, per pid
    dismiss_log,        \* history: when an active alert of each signature was last deleted
    known_store,        \* KnownEntityStore.entities (process entries)
    sensor_health,      \* RuntimeStateInner.sensor_health (network and registry entries)
    previous_connections,       \* local of the loop: keys of the last successful sample
    previous_registry_values,   \* local of the loop: the last successful registry snapshot
    last_tail,          \* the samples and the emitted events of the tail of the latest tick
    override_log,       \* history: the trust overrides made and the ones still standing
    registry_sampled,   \* history: a registry sample has succeeded since startup
    process_tree,       \* RuntimeStateInner.process_tree
    threads,            \* per thread: the operation it is in, its position and its locals
    held                \* per thread: the locks of RuntimeStateInner it holds, with the mode

vars == << now, process_metrics, response_policy, response_store, action_cooldowns,
           store, dismissed_alerts, event_store, event_counter, signature_cache, cpu_history,
           cpu_spike_config, detection_profile, tick, tick_pc, loop_started, wake_at,
           metrics, cursor, signature_probes, previous_metrics, correlation,
           pending_auto, last_response, last_auto, last_offers, dispatch_log,
           last_call, cpu_log, dismiss_log, known_store, sensor_health,
           previous_connections, previous_registry_values, last_tail, override_log,
           registry_sampled, process_tree, threads, held >>

(***************************************************************************)
(* app_state.rs: response engine                                           *)
(***************************************************************************)
action_type_label(action_type) ==
    CASE action_type = "SuspendProcess"      -> "suspend_process"
      [] action_type = "BlockProcessNetwork" -> "block_process_network"
      [] action_type = "TerminateProcess"    -> "terminate_process"

\* format!("{}:{}", pid, action_type_label(action_type))
CooldownKey(pid, action_type) == << pid, ":", action_type_label(action_type) >>

is_action_allowed_by_cooldown(cooldowns, pid, action_type, cooldown_seconds, now_utc) ==
    LET key == CooldownKey(pid, action_type) IN
    IF key \notin DOMAIN cooldowns THEN TRUE
    ELSE num_seconds(now_utc - cooldowns[key]) >= cooldown_seconds

update_action_cooldown(cooldowns, pid, action_type, now_utc) ==
    Put(cooldowns, CooldownKey(pid, action_type), now_utc)

\* .find(|item| item.pid == pid) over the stored snapshot
FindMetric(list, pid) ==
    IF \E i \in 1..Len(list) : list[i].pid = pid
    THEN Some(list[CHOOSE i \in 1..Len(list) :
                     /\ list[i].pid = pid
                     /\ \A j \in 1..(i - 1) : list[j].pid # pid])
    ELSE None

IsBlank(str) == \A i \in 1..Len(str) : str[i] = " "

\* response_engine::execute_action: the platform command succeeds or fails
\* (exec_ok); block_process_network fails before it when there is no path
execute_action(action_type, pid, process_path, exec_ok) ==
    CASE action_type = "SuspendProcess" ->
            IF exec_ok THEN [ ok |-> TRUE, msg |-> "process suspended" ]
            ELSE [ ok |-> FALSE, msg |-> "suspend process failed" ]
      [] action_type = "TerminateProcess" ->
            IF exec_ok THEN [ ok |-> TRUE, msg |-> "process terminated" ]
            ELSE [ ok |-> FALSE, msg |-> "terminate process failed" ]
      [] action_type = "BlockProcessNetwork" ->
            IF ~IsSome(process_path) \/ IsBlank(Unwrap(process_path))
            THEN [ ok |-> FALSE, msg |-> "process path unavailable for firewall block action" ]
            ELSE IF exec_ok
            THEN [ ok |-> TRUE, msg |-> "outbound network blocked by firewall rule" ]
            ELSE [ ok |-> FALSE, msg |-> "block network failed" ]

max_actions == 5000

\* ResponseActionStore::push without the persist step
PushAction(actions, record) ==
    LET appended == Append(actions, record) IN
    IF Len(appended) > max_actions
    THEN SubSeq(appended, Len(appended) - max_actions + 1, Len(appended))
    ELSE appended

\* EventStore::load: the row cap of the events table
max_events == 50000

\* the INSERT OR REPLACE statement of insert_event: the primary key is event_id
insert_or_replace(rows, event) ==
    Append(SelectSeq(rows, LAMBDA r : r.event_id # event.event_id), event)

\* the rows left by deleting the rows at the positions in deleted
RemoveRows(rows, deleted) ==
    LET kept(i) == Cardinality({ k \in 1..i : k \notin deleted })
    IN [ n \in 1..(Len(rows) - Cardinality(deleted)) |->
            rows[CHOOSE i \in 1..Len(rows) : i \notin deleted /\ kept(i) = n] ]

\* a prune that takes any to_delete rows, whatever their timestamp_utc
OldestRows_any_rows(rows, to_delete) ==
    { d \in SUBSET (1..Len(rows)) : Cardinality(d) = to_delete }

\* SELECT event_id ... ORDER BY timestamp_utc ASC LIMIT to_delete: every set of
\* to_delete positions that the ordering can put first (rows of equal
\* timestamp_utc come in an order SQL does not fix)
OldestRows(rows, to_delete) ==
    { d \in SUBSET (1..Len(rows)) :
        /\ Cardinality(d) = to_delete
        /\ \A i \in d : \A k \in (1..Len(rows)) \ d :
              rows[i].timestamp_utc <= rows[k].timestamp_utc }

\* EventStore::prune_if_needed with self.max_events = cap: the tables it can leave
prune_if_needed(rows, cap) ==
    IF Len(rows) <= cap
    THEN { rows }
    ELSE { RemoveRows(rows, d) : d \in OldestRows(rows, Len(rows) - cap) }

\* EventStore::insert_event with self.max_events = cap: the tables it can leave
insert_event_outcomes(rows, event, cap) ==
    prune_if_needed(insert_or_replace(rows, event), cap)

\* EventStore::insert_event of the running program; while the table is within
\* max_events the INSERT leaves one outcome
insert_event(rows, event) ==
    LET inserted == insert_or_replace(rows, event) IN
    IF Len(inserted) <= max_events
    THEN inserted
    ELSE CHOOSE out \in prune_if_needed(inserted, max_events) : TRUE

\* str::trim, for the space character
RECURSIVE trim_start(_)
trim_start(s) ==
    IF s # <<>> /\ Head(s) = " " THEN trim_start(Tail(s)) ELSE s

RECURSIVE trim_end(_)
trim_end(s) ==
    IF s # <<>> /\ s[Len(s)] = " " THEN trim_end(SubSeq(s, 1, Len(s) - 1)) ELSE s

trim(s) == trim_end(trim_start(s))

\* list_events: value.trim().to_lowercase(), and a blank filter is no filter
\* (the trimmed text is bound to its value before it is lowercased)
NormaliseFilter(filter) ==
    IF filter = None
    THEN None
    ELSE CHOOSE normalised \in
             { IF v = <<>> THEN None ELSE Some(v) :
                 v \in { to_lowercase(t) : t \in { trim(Unwrap(filter)) } } } : TRUE

\* list_events: min(limit.saturating_mul(5).max(200), 5_000)
fetch_limit(limit) == Min(Max(limit * 5, 200), 5000)

\* list_events: the three filter tests of the loop body, on normalised filters
PassesFilters(event, event_type_filter, sensor_filter, search_filter) ==
    /\ IsSome(event_type_filter)
          => to_lowercase(event.event_type) = Unwrap(event_type_filter)
    /\ IsSome(sensor_filter)
          => to_lowercase(event.sensor) = Unwrap(sensor_filter)
    /\ IsSome(search_filter)
          => \/ contains(to_lowercase(event.message), Unwrap(search_filter))
             \/ /\ IsSome(event.process)
                /\ \/ contains(to_lowercase(Unwrap(event.process).image_name),
                               Unwrap(search_filter))
                   \/ contains(to_lowercase(IF IsSome(Unwrap(event.process).image_path)
                                            THEN Unwrap(Unwrap(event.process).image_path)
                                            ELSE <<>>),
                               Unwrap(search_filter))

\* list_events: the loop over the fetched rows; a passing event is pushed and
\* the loop breaks once output.len() >= limit
RECURSIVE CollectEvents(_, _, _, _, _, _)
CollectEvents(rows, output, limit, event_type_filter, sensor_filter, search_filter) ==
    IF rows = <<>>
    THEN output
    ELSE IF ~PassesFilters(Head(rows), event_type_filter, sensor_filter, search_filter)
    THEN CollectEvents(Tail(rows), output, limit,
                       event_type_filter, sensor_filter, search_filter)
    ELSE LET pushed == Append(output, Head(rows)) IN
         IF Len(pushed) >= limit
         THEN pushed
         ELSE CollectEvents(Tail(rows), pushed, limit,
                            event_type_filter, sensor_filter, search_filter)

\* SELECT payload FROM events ORDER BY timestamp_utc DESC: every order of the
\* rows that the ordering allows (rows of equal timestamp_utc in any order)
NewestFirstOrders(rows) ==
    { order \in [ 1..Len(rows) -> 1..Len(rows) ] :
        /\ \A i, j \in 1..Len(rows) : i # j => order[i] # order[j]
        /\ \A i, j \in 1..Len(rows) :
              i < j => rows[order[i]].timestamp_utc >= rows[order[j]].timestamp_utc }

\* EventStore::list_events: the results it can return (the filters and the
\* fetched rows are bound to their values first)
list_events(rows, limit, event_type, sensor, search) ==
    UNION { { CollectEvents(fetched, <<>>, limit, tf, sf, qf) :
                fetched \in { SubSeq([ i \in 1..Len(rows) |-> rows[order[i]] ],
                                     1, Min(Len(rows), fetch_limit(limit))) } } :
            order \in NewestFirstOrders(rows),
            tf \in { NormaliseFilter(event_type) },
            sf \in { NormaliseFilter(sensor) },
            qf \in { NormaliseFilter(search) } }

NoCall ==
    [ kind |-> "none", pid |-> 0, action_type |-> "SuspendProcess", automatic |-> FALSE,
      policy |-> secure_default, metric |-> None, dispatched |-> FALSE,
      exec |-> None, record |-> None, event |-> None, published |-> FALSE,
      prior |-> None, at |-> 0 ]

\* the guards of run_response_action, in the order the code tests them
\* the mode check applied to manual calls as well
mode_check_any_caller(automatic, policy) ==
    policy.mode # "Constrain"

\* "if automatic && policy.mode != ResponseMode::Constrain"
mode_check_rejects(automatic, policy) ==
    automatic /\ policy.mode # "Constrain"

\* "if policy.safe_mode && response_engine::is_critical_process(..)"
safe_mode_rejects(policy, metric) ==
    policy.safe_mode /\ is_critical_process(metric.name, metric.exe_path)

\* the terminate check with the negation lost
terminate_rejects_inverted(action_type, policy) ==
    action_type = "TerminateProcess" /\ policy.allow_terminate

\* "if action_type == TerminateProcess && !policy.allow_terminate"
terminate_rejects(action_type, policy) ==
    action_type = "TerminateProcess" /\ ~policy.allow_terminate


\* the cooldown guard applied to manual calls as well
cooldown_rejects_any_caller(automatic, cooldowns, pid, action_type, policy, now_utc) ==
    ~is_action_allowed_by_cooldown(cooldowns, pid, action_type,
                                   policy.cooldown_seconds, now_utc)

\* "if automatic && !self.is_action_allowed_by_cooldown(..)"
cooldown_rejects(automatic, cooldowns, pid, action_type, policy, now_utc) ==
    automatic /\ ~is_action_allowed_by_cooldown(cooldowns, pid, action_type,
                                                policy.cooldown_seconds, now_utc)

\* the severities the wrong way round
response_event_severity_swapped(success) ==
    IF success THEN "Critical" ELSE "Warn"

\* severity of the response_action event
response_event_severity(success) ==
    IF success THEN "Warn" ELSE "Critical"

\* RuntimeState::run_response_action, as a function of the state it reads.
\* kind names the return: an error kind or "ok".
run_response_action(pid, action_type, reason, automatic, exec_ok, persist_ok, event_ok) ==
    LET found  == FindMetric(process_metrics, pid)
        policy == response_policy
        base   == [ NoCall EXCEPT !.pid = pid, !.action_type = action_type,
                                  !.automatic = automatic, !.policy = policy,
                                  !.metric = found, !.at = now,
                                  !.prior = IF CooldownKey(pid, action_type) \in DOMAIN dispatch_log
                                            THEN Some(dispatch_log[CooldownKey(pid, action_type)])
                                            ELSE None ]
    IN
    IF ~IsSome(found) THEN [ base EXCEPT !.kind = "not_found" ]
    ELSE
    LET metric == Unwrap(found)
        reason_text == IF IsSome(reason) THEN Unwrap(reason) ELSE "manual action"
    IN
    IF mode_check_rejects(automatic, policy) THEN [ base EXCEPT !.kind = "audit" ]
    ELSE IF safe_mode_rejects(policy, metric) THEN [ base EXCEPT !.kind = "safe_mode" ]
    ELSE IF terminate_rejects(action_type, policy)
    THEN [ base EXCEPT !.kind = "terminate_blocked" ]
    ELSE IF cooldown_rejects(automatic, action_cooldowns, pid, action_type, policy, now)
    THEN [ base EXCEPT !.kind = "cooldown" ]
    ELSE
    LET execution == execute_action(action_type, pid, metric.exe_path, exec_ok)
        record == [ id |-> << "response", pid, action_type_label(action_type), now >>,
                    timestamp_utc |-> now,
                    action_type |-> action_type,
                    mode |-> policy.mode,
                    pid |-> pid,
                    process_name |-> metric.name,
                    success |-> execution.ok,
                    automatic |-> automatic,
                    score |-> metric.risk_score,
                    verdict |-> metric.verdict,
                    reason |-> reason_text,
                    details |-> execution.msg ]
        event == [ event_id |-> << "response-action", pid, now >>,
                   timestamp_utc |-> now,
                   event_type |-> "response_action",
                   sensor |-> "response",
                   severity |-> response_event_severity(execution.ok),
                   process |-> Some([ pid |-> metric.pid, image_name |-> metric.name,
                                      image_path |-> metric.exe_path ]),
                   rule_hits |-> << <<reason_text>> >>,
                   risk_score |-> Some(metric.risk_score),
                   verdict |-> Some(metric.verdict),
                   evidence_refs |-> << execution.msg >> ]
    IN
    IF ~persist_ok
    THEN [ base EXCEPT !.kind = "persist_failed", !.dispatched = TRUE,
                       !.exec = Some(execution), !.record = Some(record) ]
    ELSE [ base EXCEPT !.kind = "ok", !.dispatched = TRUE, !.exec = Some(execution),
                       !.record = Some(record), !.event = Some(event),
                       !.published = event_ok ]

\* ApplyResponseState writing the cooldown entry before the guards are tested
ApplyResponseState_cooldown_first(o) ==
    /\ response_store' = IF o.dispatched THEN PushAction(response_store, Unwrap(o.record))
                         ELSE response_store
    /\ action_cooldowns' = IF o.automatic /\ o.kind # "not_found"
                           THEN update_action_cooldown(action_cooldowns, o.pid, o.action_type, now)
                           ELSE action_cooldowns
    /\ dispatch_log' = IF o.dispatched /\ o.automatic
                       THEN Put(dispatch_log, CooldownKey(o.pid, o.action_type), now)
                       ELSE dispatch_log
    /\ last_response' = o

\* the state changes of a run_response_action call with outcome o, apart from
\* the event store
ApplyResponseState(o) ==
    /\ response_store' = IF o.dispatched THEN PushAction(response_store, Unwrap(o.record))
                         ELSE response_store
    /\ action_cooldowns' = IF o.kind = "ok" /\ o.automatic
                           THEN update_action_cooldown(action_cooldowns, o.pid, o.action_type, now)
                           ELSE action_cooldowns
    /\ dispatch_log' = IF o.dispatched /\ o.automatic
                       THEN Put(dispatch_log, CooldownKey(o.pid, o.action_type), now)
                       ELSE dispatch_log
    /\ last_response' = o

\* all state changes of a run_response_action call with outcome o
ApplyResponse(o) ==
    /\ ApplyResponseState(o)
    /\ event_store' = IF o.published THEN insert_event(event_store, Unwrap(o.event))
                      ELSE event_store


(***************************************************************************)
(* app_state.rs: alert pipeline                                            *)
(***************************************************************************)
ALERT_SUPPRESSION_SECONDS == 300

ALERT_DEDUP_SECONDS == 120

\* format!("{:?}", severity).to_lowercase()
SeverityLower(severity) ==
    CASE severity = "Info" -> "info"
      [] severity = "Warn" -> "warn"
      [] severity = "Critical" -> "critical"

\* a title is <<prefix, name>>; lowercasing acts on the name part, the
\* prefixes are distinct constants
TitleLower(title) == << title[1], to_lowercase(title[2]) >>

alert_signature(alert) ==
    << alert.alert_type,
       IF IsSome(alert.pid) THEN Unwrap(alert.pid) ELSE 0,
       TitleLower(alert.title),
       SeverityLower(alert.severity) >>

\* the retain() of is_alert_suppressed
PruneDismissed(dismissed, now_utc) ==
    Retain(dismissed,
           { sig \in DOMAIN dismissed :
                 num_seconds(now_utc - dismissed[sig]) < ALERT_SUPPRESSION_SECONDS })

is_alert_suppressed(dismissed, alert, now_utc) ==
    LET kept == PruneDismissed(dismissed, now_utc)
        signature == alert_signature(alert)
    IN  IF signature \in DOMAIN kept
        THEN num_seconds(now_utc - kept[signature]) < ALERT_SUPPRESSION_SECONDS
        ELSE FALSE

mark_alert_dismissed(dismissed, alert, now_utc) ==
    Put(dismissed, alert_signature(alert), now_utc)

IsDuplicate(alerts, alert, now_utc) ==
    \E i \in 1..Len(alerts) :
        /\ alerts[i].pid = alert.pid
        /\ alerts[i].alert_type = alert.alert_type
        /\ alerts[i].title = alert.title
        /\ is_recent(alerts[i].timestamp, ALERT_DEDUP_SECONDS, now_utc)

\* RuntimeState::add_alert_if_new on the pair (alerts, dismissed).
\* result: "suppressed" | "duplicate" (Ok(false)), "persist_failed" (Err), "added" (Ok(true))
add_alert_if_new(alerts, dismissed, alert, persist_ok, now_utc) ==
    IF is_alert_suppressed(dismissed, alert, now_utc)
    THEN [ alerts |-> alerts, dismissed |-> PruneDismissed(dismissed, now_utc),
           result |-> "suppressed" ]
    ELSE IF IsDuplicate(alerts, alert, now_utc)
    THEN [ alerts |-> alerts, dismissed |-> PruneDismissed(dismissed, now_utc),
           result |-> "duplicate" ]
    ELSE [ alerts |-> Append(alerts, alert), dismissed |-> PruneDismissed(dismissed, now_utc),
           result |-> IF persist_ok THEN "added" ELSE "persist_failed" ]

(***************************************************************************)
(* storage/mod.rs: AlertStore                                              *)
(***************************************************************************)
\* Vec::sort_by(|a, b| b.timestamp.cmp(&a.timestamp)): newest first, stable
SortNewestFirst(alerts) ==
    LET key(i) == Unwrap(alerts[i].timestamp)
        rank(i) == Cardinality({ j \in 1..Len(alerts) :
                                   \/ key(j) > key(i)
                                   \/ key(j) = key(i) /\ j < i }) + 1
    IN  [ k \in 1..Len(alerts) |-> alerts[CHOOSE i \in 1..Len(alerts) : rank(i) = k] ]

history(alerts) == SortNewestFirst(alerts)

active_alerts(alerts) ==
    SortNewestFirst(SelectSeq(alerts, LAMBDA a : a.status = "Active"))

\* mutation of acknowledge: the status is toggled
acknowledge_toggle(alerts, alert_id) ==
    LET hits == { i \in 1..Len(alerts) : alerts[i].id = alert_id }
    IN  IF hits = {} THEN [ alerts |-> alerts, updated |-> FALSE ]
        ELSE LET first == CHOOSE i \in hits : \A j \in hits : i <= j
             IN  [ alerts |-> [ alerts EXCEPT ![first].status =
                                    IF @ = "Acknowledged" THEN "Active" ELSE "Acknowledged" ],
                   updated |-> TRUE ]

\* AlertStore::acknowledge without the persist step
acknowledge(alerts, alert_id) ==
    LET hits == { i \in 1..Len(alerts) :
                    alerts[i].id = alert_id /\ alerts[i].status # "Acknowledged" }
    IN  IF hits = {} THEN [ alerts |-> alerts, updated |-> FALSE ]
        ELSE LET first == CHOOSE i \in hits : \A j \in hits : i <= j
             IN  [ alerts |-> [ alerts EXCEPT ![first].status = "Acknowledged" ],
                   updated |-> TRUE ]

\* AlertStore::delete without the persist step
delete(alerts, alert_id) ==
    LET kept == SelectSeq(alerts, LAMBDA a : a.id # alert_id)
    IN  [ alerts |-> kept, changed |-> Len(kept) # Len(alerts) ]

\* AlertStore::delete_all_active without the persist step
delete_all_active(alerts) ==
    LET kept == SelectSeq(alerts, LAMBDA a : a.status # "Active")
    IN  [ alerts |-> kept, deleted |-> Len(alerts) - Len(kept) ]

\* for alert in &active_alerts { self.mark_alert_dismissed(alert) }
RECURSIVE mark_all_dismissed(_, _, _)
mark_all_dismissed(dismissed, alerts, now_utc) ==
    IF alerts = <<>> THEN dismissed
    ELSE mark_all_dismissed(mark_alert_dismissed(dismissed, Head(alerts), now_utc),
                            Tail(alerts), now_utc)

\* .find(|alert| alert.id == alert_id && alert.status == Active) over history()
FindActive(alerts, alert_id) ==
    LET sorted == history(alerts)
        hits == { i \in 1..Len(sorted) :
                    sorted[i].id = alert_id /\ sorted[i].status = "Active" }
    IN  IF hits = {} THEN None
        ELSE Some(sorted[CHOOSE i \in hits : \A j \in hits : i <= j])

(***************************************************************************)
(* monitoring/mod.rs: tick loop                                            *)
(***************************************************************************)
SIGNATURE_PROBE_BUDGET == 16

CORRELATION_WINDOW_SECS == 300

SLEEP_SECS == 2

\* std::time::Duration::as_secs of Instant::duration_since (saturating at zero)
as_secs(d) == IF d <= 0 THEN 0 ELSE d \div SubSec

has_recent_process_start(corr, pid, at) ==
    IF pid \in DOMAIN corr.recent_process_start
    THEN as_secs(at - corr.recent_process_start[pid]) <= CORRELATION_WINDOW_SECS
    ELSE FALSE

has_recent_network_activity(corr, pid, at) ==
    IF pid \in DOMAIN corr.recent_network_activity
    THEN as_secs(at - corr.recent_network_activity[pid]) <= CORRELATION_WINDOW_SECS
    ELSE FALSE

has_recent_registry_change(corr, at) ==
    IF IsSome(corr.last_registry_change)
    THEN as_secs(at - Unwrap(corr.last_registry_change)) <= CORRELATION_WINDOW_SECS
    ELSE FALSE

\* CorrelationState::prune
prune(corr, at) ==
    [ recent_process_start |->
          Retain(corr.recent_process_start,
                 { pid \in DOMAIN corr.recent_process_start :
                       as_secs(at - corr.recent_process_start[pid])
                           <= CORRELATION_WINDOW_SECS }),
      recent_network_activity |->
          Retain(corr.recent_network_activity,
                 { pid \in DOMAIN corr.recent_network_activity :
                       as_secs(at - corr.recent_network_activity[pid])
                           <= CORRELATION_WINDOW_SECS }),
      last_registry_change |->
          IF IsSome(corr.last_registry_change)
             /\ as_secs(at - Unwrap(corr.last_registry_change)) > CORRELATION_WINDOW_SECS
          THEN None ELSE corr.last_registry_change ]

mark_process_start(corr, pid, at) ==
    [ corr EXCEPT !.recent_process_start = Put(corr.recent_process_start, pid, at) ]

S_p_control == <<"p","-","c","o","n","t","r","o","l">>

S_nyx_monitor_sp == <<"n","y","x"," ","m","o","n","i","t","o","r">>

S_nyx_monitor == <<"n","y","x","-","m","o","n","i","t","o","r">>

is_internal_process(metric) ==
    LET name == to_lowercase(metric.name) IN
    IF contains(name, S_p_control) \/ contains(name, S_nyx_monitor_sp)
       \/ contains(name, S_nyx_monitor)
    THEN TRUE
    ELSE IF IsSome(metric.exe_path)
         THEN LET lower == to_lowercase(Unwrap(metric.exe_path)) IN
              \/ contains(lower, Bsl \o S_p_control \o Bsl)
              \/ contains(lower, Bsl \o S_nyx_monitor_sp \o Bsl)
              \/ contains(lower, Bsl \o S_nyx_monitor \o Bsl)
         ELSE FALSE

\* trust.rs
is_windows_path(path) ==
    LET lower == IF IsSome(path) THEN to_lowercase(Unwrap(path)) ELSE <<>> IN
    \/ starts_with(lower, <<"c",":">> \o Bsl \o S_windows \o Bsl)
    \/ starts_with(lower, Bsl \o Bsl \o <<"?">> \o Bsl \o <<"c",":">> \o Bsl \o S_windows \o Bsl)
    \/ contains(lower, Bsl \o S_windows \o Bsl \o S_system32 \o Bsl)
    \/ contains(lower, Bsl \o S_windows \o Bsl \o S_syswow64 \o Bsl)

classify_process_trust(path, is_signed) ==
    IF is_windows_path(path) THEN "WindowsNative"
    ELSE IF is_signed = Some(TRUE) THEN "Trusted"
    ELSE "Unknown"

\* mutation of PushSample: a full history drops the new sample
PushSample_drop_newest(histories, pid, sample) ==
    LET old == IF pid \in DOMAIN histories THEN histories[pid] ELSE <<>>
    IN  Put(histories, pid, IF Len(old) >= 120 THEN old ELSE Append(old, sample))

\* RuntimeState::update_cpu_and_check_spike: the history after the push
PushSample(histories, pid, sample) ==
    LET old == IF pid \in DOMAIN histories THEN histories[pid] ELSE <<>>
        appended == Append(old, sample)
        kept == IF Len(appended) > 120
                THEN SubSeq(appended, Len(appended) - 120 + 1, Len(appended))
                ELSE appended
    IN  Put(histories, pid, kept)

\* mutation of CheckSpike: without prior history a sustained run is a spike
CheckSpike_no_margin(samples, config) ==
    LET n == config.min_consecutive_samples
        len == Len(samples)
    IN  /\ len >= n
        /\ n > 0
        /\ \A i \in (len - n + 1)..len : samples[i] >= config.threshold_pct

\* mutation of CheckSpike: the margin test is used whatever the prior history
CheckSpike_margin_only(samples, config) ==
    LET n == config.min_consecutive_samples
        len == Len(samples)
    IN  /\ len >= n
        /\ n > 0
        /\ \A i \in (len - n + 1)..len : samples[i] >= config.threshold_pct
        /\ SumRange(samples, len - n + 1, len) > (config.threshold_pct + 5) * n

\* ... and its verdict on the pushed history; deviation_ratio is in tenths
CheckSpike(samples, config) ==
    LET n == config.min_consecutive_samples
        len == Len(samples)
    IN
    IF len < n THEN FALSE
    ELSE
    LET recent == SubSeq(samples, len - n + 1, len)
        prior_len == len - n
        prior == SubSeq(samples, 1, prior_len)
    IN
    IF ~(\A i \in 1..Len(recent) : recent[i] >= config.threshold_pct) THEN FALSE
    ELSE IF n = 0 THEN FALSE   \* 0.0 / 0.0 is NaN and compares false
    ELSE IF prior_len < 5
    THEN SumSeq(recent) > (config.threshold_pct + 5) * n
    ELSE SumSeq(recent) * prior_len * 10 > SumSeq(prior) * config.deviation_ratio * n

R_START == "Process creation observed recently in correlation window"

R_NETWORK == "New outbound network activity correlated to this process"

R_REGISTRY == "Critical registry persistence change observed recently"

R_UNCLASSIFIED == "Trust classification is unclassified (manual verification recommended)"

R_NONE == "No suspicious heuristics triggered"

R_AUTO == "automatic constrain by risk threshold"

(***************************************************************************)
(* Known entities: the trust overrides of processes                        *)
(***************************************************************************)
RECURSIVE trim_start_matches(_, _)
trim_start_matches(s, c) ==
    IF s # <<>> /\ Head(s) = c THEN trim_start_matches(Tail(s), c) ELSE s

RECURSIVE trim_end_matches(_, _)
trim_end_matches(s, c) ==
    IF s # <<>> /\ s[Len(s)] = c THEN trim_end_matches(SubSeq(s, 1, Len(s) - 1), c) ELSE s

\* str::trim_matches for one character
trim_matches(s, c) == trim_end_matches(trim_start_matches(s, c), c)

\* trust::normalize_key
normalize_key(value) ==
    CHOOSE r \in
        { IF stripped = <<>> THEN None
          ELSE Some([ i \in 1..Len(stripped) |->
                        IF stripped[i] = "/" THEN "\\" ELSE stripped[i] ]) :
          stripped \in
              { IF starts_with(lowered, <<"\\", "\\", "?", "\\">>)
                THEN SubSeq(lowered, 5, Len(lowered))
                ELSE lowered :
                lowered \in { to_lowercase(trim_matches(trim(value), "\"")) } } } : TRUE

\* trust::process_match_keys
process_match_keys(path, name) ==
    normalize_key(IF IsSome(path) THEN Unwrap(path) ELSE <<>>) \o normalize_key(name)

\* the characters a key can hold here, in byte order
AsciiOrder ==
    << " ", "-", ".", "0", "1", "2", "3", "4", "5", "6", "7", "8", "9", ":",
       "A", "B", "C", "D", "E", "F", "G", "H", "I", "J", "K", "L", "M", "N", "O",
       "P", "Q", "R", "S", "T", "U", "V", "W", "X", "Y", "Z", "\\", "_",
       "a", "b", "c", "d", "e", "f", "g", "h", "i", "j", "k", "l", "m", "n", "o",
       "p", "q", "r", "s", "t", "u", "v", "w", "x", "y", "z" >>

ByteOf(c) == CHOOSE i \in 1..Len(AsciiOrder) : AsciiOrder[i] = c

\* the order of String: byte-wise lexicographic
StringLess(a, b) ==
    \E k \in 1..(Min(Len(a), Len(b)) + 1) :
        /\ \A i \in 1..(k - 1) : a[i] = b[i]
        /\ k <= Len(b)
        /\ (k <= Len(a) => ByteOf(a[k]) < ByteOf(b[k]))

\* keys.sort(); keys.dedup() for the one or two keys of process_match_keys
SortDedup(keys) ==
    IF Len(keys) < 2 THEN keys
    ELSE IF keys[1] = keys[2] THEN << keys[1] >>
    ELSE IF StringLess(keys[2], keys[1]) THEN << keys[2], keys[1] >>
    ELSE keys

\* created_at of an entity is Utc::now().to_rfc3339() and is only ever
\* compared with another created_at: it is kept as the rank of the clock
\* reading, each reading later than the ones before
NextStamp(entities) ==
    1 + (IF entities = <<>> THEN 0
         ELSE CHOOSE m \in { entities[i].created_at : i \in 1..Len(entities) } :
                  \A i \in 1..Len(entities) : entities[i].created_at <= m)

\* KnownEntityStore::find for a process key: the position of the entry, or 0
FindEntity(entities, k) ==
    IF \E i \in 1..Len(entities) : entities[i].key = k
    THEN CHOOSE i \in 1..Len(entities) :
             /\ entities[i].key = k
             /\ \A j \in 1..(i - 1) : entities[j].key # k
    ELSE 0

\* KnownEntityStore::upsert before its call of persist
upsert(entities, k, trust_level, label) ==
    LET at == FindEntity(entities, k) IN
    IF at > 0
    THEN IF entities[at].label # label \/ entities[at].trust_level # trust_level
         THEN [ entities |-> [ entities EXCEPT ![at] =
                                 [ @ EXCEPT !.label = label, !.trust_level = trust_level,
                                            !.created_at = NextStamp(entities) ] ],
                changed |-> TRUE ]
         ELSE [ entities |-> entities, changed |-> FALSE ]
    ELSE [ entities |-> Append(entities,
                               [ kind |-> "Process", key |-> k, label |-> label,
                                 trust_level |-> trust_level,
                                 created_at |-> NextStamp(entities) ]),
           changed |-> TRUE ]

\* storage::key_basename
key_basename(k) ==
    LET cut == CHOOSE i \in 0..Len(k) :
                   /\ i > 0 => k[i] = "\\"
                   /\ \A j \in (i + 1)..Len(k) : k[j] # "\\"
    IN  SubSeq(k, cut + 1, Len(k))

\* KnownEntityStore::sync_process_aliases_by_name before its call of persist
RECURSIVE sync_process_aliases_by_name(_, _, _, _, _)
sync_process_aliases_by_name(entities, i, normalized_name, trust_level, label) ==
    IF i > Len(entities) THEN [ entities |-> entities, changed |-> FALSE ]
    ELSE IF /\ \/ entities[i].key = normalized_name
               \/ key_basename(entities[i].key) = normalized_name
            /\ \/ entities[i].trust_level # trust_level
               \/ entities[i].label # label
         THEN LET rest == sync_process_aliases_by_name(
                              [ entities EXCEPT ![i] =
                                  [ @ EXCEPT !.label = label, !.trust_level = trust_level,
                                             !.created_at = NextStamp(entities) ] ],
                              i + 1, normalized_name, trust_level, label)
              IN  [ entities |-> rest.entities, changed |-> TRUE ]
         ELSE sync_process_aliases_by_name(entities, i + 1, normalized_name,
                                           trust_level, label)

\* the for loop of set_process_trust_override over the keys; a call of
\* persist that fails ends it with the entry already changed in memory
RECURSIVE UpsertKeys(_, _, _, _, _, _)
UpsertKeys(entities, keys, i, trust_level, label, persist_ok) ==
    IF i > Len(keys) THEN [ entities |-> entities, changed |-> FALSE, failed |-> FALSE ]
    ELSE LET u == upsert(entities, keys[i], trust_level, label) IN
         IF u.changed /\ ~persist_ok
         THEN [ entities |-> u.entities, changed |-> TRUE, failed |-> TRUE ]
         ELSE LET rest == UpsertKeys(u.entities, keys, i + 1, trust_level, label, persist_ok)
              IN  [ entities |-> rest.entities,
                    changed |-> u.changed \/ rest.changed,
                    failed |-> rest.failed ]

\* RuntimeState::apply_process_override_to_snapshot on the stored metrics
apply_process_override_to_snapshot(list, keys, trust_level, label) ==
    [ i \in 1..Len(list) |->
        IF \E a \in 1..Len(keys) :
               \E m \in { process_match_keys(list[i].exe_path, list[i].name) } :
                   \E b \in 1..Len(m) : m[b] = keys[a]
        THEN [ list[i] EXCEPT !.trust_level = trust_level, !.trust_label = label ]
        ELSE list[i] ]

\* the part of set_process_trust_override after the for loop over the keys
OverrideAfterUpsert(u, list, keys, name_key, trust_level, label, persist_ok) ==
    LET unchanged == [ entities |-> u.entities, list |-> list, keys |-> keys,
                       label |-> label, result |-> "false" ]
    IN  IF u.failed THEN [ unchanged EXCEPT !.result = "err" ]
        ELSE CHOOSE r \in
                 { IF a.changed /\ ~persist_ok
                   THEN [ unchanged EXCEPT !.entities = a.entities, !.result = "err" ]
                   ELSE IF u.changed \/ a.changed
                   THEN [ unchanged EXCEPT
                            !.entities = a.entities,
                            !.list = apply_process_override_to_snapshot(
                                         list, keys, trust_level, label),
                            !.result = "true" ]
                   ELSE unchanged :
                   a \in { IF IsSome(name_key)
                           THEN sync_process_aliases_by_name(u.entities, 1, Unwrap(name_key),
                                                             Some(trust_level), label)
                           ELSE [ entities |-> u.entities, changed |-> FALSE ] } } : TRUE

\* RuntimeState::set_process_trust_override up to its return: the entities,
\* the stored metrics, the sorted keys, the trimmed label and the result
\* (Ok(true), Ok(false) or Err)
OverrideOutcome(entities, list, path, name, trust_level, label, persist_ok) ==
    CHOOSE r \in
        { IF keys = <<>>
          THEN [ entities |-> entities, list |-> list, keys |-> keys,
                 label |-> normalized_label, result |-> "false" ]
          ELSE CHOOSE x \in
                   { OverrideAfterUpsert(u, list, keys, name_key, trust_level,
                                         normalized_label, persist_ok) :
                     u \in { UpsertKeys(entities, keys, 1, Some(trust_level),
                                        normalized_label, persist_ok) } } : TRUE :
          keys \in { SortDedup(process_match_keys(path, name)) },
          name_key \in { normalize_key(name) },
          normalized_label \in { IF IsSome(label) /\ trim(Unwrap(label)) # <<>>
                                 THEN Some(trim(Unwrap(label))) ELSE None } } : TRUE

\* the latest of the entries found under the given keys, or 0
RECURSIVE PickLatest(_, _, _, _)
PickLatest(entities, keys, i, selected) ==
    IF i > Len(keys) THEN selected
    ELSE LET at == FindEntity(entities, keys[i]) IN
         PickLatest(entities, keys, i + 1,
                    IF at = 0 THEN selected
                    ELSE IF selected = 0 THEN at
                    ELSE IF entities[at].created_at >= entities[selected].created_at THEN at
                    ELSE selected)

\* the lookup by the path key alone
known_process_override_path_only(entities, metric) ==
    LET at == PickLatest(entities,
                         normalize_key(IF IsSome(metric.exe_path)
                                       THEN Unwrap(metric.exe_path) ELSE <<>>),
                         1, 0)
    IN  IF at = 0 THEN None
        ELSE Some([ trust_level |-> IF IsSome(entities[at].trust_level)
                                    THEN Unwrap(entities[at].trust_level) ELSE "Trusted",
                    label |-> entities[at].label ])

\* RuntimeState::known_process_override
known_process_override(entities, metric) ==
    CHOOSE r \in
        { IF at = 0 THEN None
          ELSE Some([ trust_level |-> IF IsSome(entities[at].trust_level)
                                      THEN Unwrap(entities[at].trust_level) ELSE "Trusted",
                      label |-> entities[at].label ]) :
          at \in { PickLatest(entities,
                              process_match_keys(metric.exe_path, metric.name), 1, 0) } } : TRUE


(***************************************************************************)
(* monitoring/process_collector.rs: the process tree                       *)
(***************************************************************************)
\* by_pid.get(&pid): the entry inserted last under the pid
ByPid(list, pid) ==
    LET hits == { i \in 1..Len(list) : list[i].pid = pid }
    IN  IF hits = {} THEN None
        ELSE Some(list[CHOOSE i \in hits : \A j \in hits : j <= i])

\* children_by_parent.get(&Some(pid)): the pids filed under the parent, in list order
ChildrenByParent(list, pid) ==
    LET kids == SelectSeq(list, LAMBDA m : m.ppid = Some(pid))
    IN  [ i \in 1..Len(kids) |-> kids[i].pid ]

\* sort_by(|a, b| a.name.to_lowercase().cmp(&b.name.to_lowercase())): stable
SortByName(nodes) ==
    LET key(i) == to_lowercase(nodes[i].name)
        rank(i) == Cardinality({ j \in 1..Len(nodes) :
                                   \/ StringLess(key(j), key(i))
                                   \/ key(j) = key(i) /\ j < i }) + 1
    IN  [ k \in 1..Len(nodes) |-> nodes[CHOOSE i \in 1..Len(nodes) : rank(i) = k] ]

\* roots.sort_unstable(); roots.dedup()
SortedPids(S) ==
    [ k \in 1..Cardinality(S) |->
        CHOOSE pid \in S : Cardinality({ q \in S : q < pid }) = k - 1 ]

\* build_node and the filter_map over a vector of pids. depth counts the calls
\* still allowed on the stack: a call that finds it at 0 stands for a
\* recursion that never returns, and ok = FALSE is handed up.
RECURSIVE build_node(_, _, _)
RECURSIVE BuildNodes(_, _, _, _)
build_node(pid, list, depth) ==
    IF depth = 0 THEN [ ok |-> FALSE, node |-> None ]
    ELSE IF ~IsSome(ByPid(list, pid)) THEN [ ok |-> TRUE, node |-> None ]
    ELSE CHOOSE r \in
             { [ ok |-> kids.ok,
                 node |-> Some([ pid |-> metric.pid,
                                 ppid |-> metric.ppid,
                                 name |-> metric.name,
                                 exe_path |-> metric.exe_path,
                                 risk |-> metric.suspicion.level,
                                 trust_level |-> metric.trust_level,
                                 trust_label |-> metric.trust_label,
                                 children |-> SortByName(kids.nodes) ]) ] :
               metric \in { Unwrap(ByPid(list, pid)) },
               kids \in { BuildNodes(ChildrenByParent(list, pid), 1, list, depth - 1) } } : TRUE

BuildNodes(pids, i, list, depth) ==
    IF i > Len(pids) THEN [ ok |-> TRUE, nodes |-> <<>> ]
    ELSE CHOOSE r \in
             { [ ok |-> first.ok /\ rest.ok,
                 nodes |-> first.node \o rest.nodes ] :
               first \in { build_node(pids[i], list, depth) },
               rest \in { BuildNodes(pids, i + 1, list, depth) } } : TRUE

\* the roots of build_process_tree
TreeRoots(list) ==
    { list[i].pid : i \in { j \in 1..Len(list) :
                              \/ list[j].ppid = None
                              \/ ~IsSome(ByPid(list, Unwrap(list[j].ppid))) } }

\* build_process_tree with every process a root, whatever its ppid
build_process_tree_all_roots(list) ==
    LET r == BuildNodes(SortedPids({ list[i].pid : i \in 1..Len(list) }), 1, list,
                        Len(list) + 1)
    IN  [ ok |-> r.ok, nodes |-> SortByName(r.nodes) ]

\* build_process_tree: nodes is the forest returned, ok tells that the
\* recursion ended
build_process_tree(list) ==
    LET r == BuildNodes(SortedPids(TreeRoots(list)), 1, list, Len(list) + 1)
    IN  [ ok |-> r.ok, nodes |-> SortByName(r.nodes) ]

\* lines 114-205 of the loop body: the metric as scored in this tick
ScoreMetric(stub, list, corr, signed, cpu_spike, profile, at, entities) ==
    LET parent_name ==
            IF IsSome(stub.ppid) /\ IsSome(FindMetric(list, Unwrap(stub.ppid)))
            THEN Some(to_lowercase(Unwrap(FindMetric(list, Unwrap(stub.ppid))).name))
            ELSE None
        assessment == assess_process(stub, parent_name, signed, cpu_spike, profile)
        internal_process == is_internal_process(stub)
        trust0 == classify_process_trust(stub.exe_path, signed)
        override == IF entities = <<>> THEN None
                    ELSE known_process_override(entities, stub)
        trust_level == IF internal_process THEN "Trusted"
                       ELSE IF IsSome(override) THEN Unwrap(override).trust_level
                       ELSE trust0
        trust_label == IF IsSome(override) /\ IsSome(Unwrap(override).label)
                       THEN Unwrap(override).label
                       ELSE IF internal_process THEN Some("Nyx Internal") ELSE None
        b1 == has_recent_process_start(corr, stub.pid, at)
        b2 == has_recent_network_activity(corr, stub.pid, at)
        b3 == /\ has_recent_registry_change(corr, at)
              /\ assessment.score >= 45
              /\ trust_level = "Unknown"
        correlation_bonuses == (IF b1 THEN <<4>> ELSE <<>>) \o (IF b2 THEN <<8>> ELSE <<>>)
                               \o (IF b3 THEN <<6>> ELSE <<>>)
        correlation_reasons == (IF b1 THEN <<R_START>> ELSE <<>>)
                               \o (IF b2 THEN <<R_NETWORK>> ELSE <<>>)
                               \o (IF b3 THEN <<R_REGISTRY>> ELSE <<>>)
        risk_score == compute_risk_score(assessment.score, correlation_bonuses)
        verdict == classify_threat_verdict(risk_score, assessment.level, trust_level,
                                           Len(correlation_reasons), internal_process)
    IN  [ metric |-> [ stub EXCEPT !.trust_level = trust_level,
                                   !.trust_label = trust_label,
                                   !.suspicion = assessment,
                                   !.risk_score = risk_score,
                                   !.verdict = verdict ],
          assessment |-> assessment,
          internal_process |-> internal_process,
          correlation_bonuses |-> correlation_bonuses,
          correlation_reasons |-> correlation_reasons ]

\* the ladder without the allow_terminate test
maybe_run_auto_response_no_allow(metric, policy) ==
    IF policy.mode # "Constrain" THEN None
    ELSE IF metric.risk_score < policy.auto_constrain_threshold THEN None
    ELSE Some(IF metric.risk_score >= 95
              THEN "TerminateProcess"
              ELSE IF IsSome(metric.exe_path) THEN "BlockProcessNetwork"
              ELSE "SuspendProcess")

\* RuntimeState::maybe_run_auto_response up to the call of run_response_action:
\* the action it requests, or None
maybe_run_auto_response(metric, policy) ==
    IF policy.mode # "Constrain" THEN None
    ELSE IF metric.risk_score < policy.auto_constrain_threshold THEN None
    ELSE Some(IF metric.risk_score >= 95 /\ policy.allow_terminate
              THEN "TerminateProcess"
              ELSE IF IsSome(metric.exe_path) THEN "BlockProcessNetwork"
              ELSE "SuspendProcess")

process_identity(metric) ==
    [ pid |-> metric.pid, image_name |-> metric.name, image_path |-> metric.exe_path ]

\* next_event_id: format!("{}-{}-{}-{}", sensor, event_type, millis, counter)
next_event_id(sensor, event_type, now_utc, counter) ==
    << sensor, event_type, now_utc, counter >>

AlertEvent(metric, alert, now_utc, counter) ==
    [ event_id |-> next_event_id("detection", "alert_generated", now_utc, counter),
      timestamp_utc |-> now_utc,
      event_type |-> "alert_generated",
      sensor |-> "detection",
      severity |-> alert.severity,
      process |-> Some(process_identity(metric)),
      rule_hits |-> alert.evidence,
      risk_score |-> Some(metric.risk_score),
      verdict |-> Some(metric.verdict),
      evidence_refs |-> <<>> ]

\* "if state.add_alert_if_new(alert).unwrap_or(false) { emit_alert_event }"
\* on st = [alerts, dismissed, events, counter, offers]; alert_opt is Option<Alert>;
\* offers lists the add_alert_if_new calls of the step: the alert, the result and
\* the ages of the stored alerts with the same (pid, alert_type, title)
OfferAlert(st, alert_opt, metric, persist_ok, event_ok, now_utc) ==
    IF ~IsSome(alert_opt) THEN st
    ELSE
    LET alert == Unwrap(alert_opt)
        r == add_alert_if_new(st.alerts, st.dismissed, alert, persist_ok, now_utc)
        same == { i \in 1..Len(st.alerts) : /\ st.alerts[i].pid = alert.pid
                                            /\ st.alerts[i].alert_type = alert.alert_type
                                            /\ st.alerts[i].title = alert.title }
    IN
    [ alerts |-> r.alerts,
      dismissed |-> r.dismissed,
      offers |-> Append(st.offers,
                        [ alert |-> alert, result |-> r.result, at |-> now_utc,
                          ages |-> { now_utc - Unwrap(st.alerts[i].timestamp) : i \in same } ]),
      events |-> IF r.result = "added" /\ event_ok
                 THEN insert_event(st.events,
                                   AlertEvent(metric, Unwrap(alert_opt), now_utc, st.counter))
                 ELSE st.events,
      counter |-> IF r.result = "added" THEN st.counter + 1 ELSE st.counter ]


(***************************************************************************)
(* Initial state: RuntimeState::new with empty stores, loop not started    *)
(***************************************************************************)
default_cpu_spike_config ==
    [ threshold_pct |-> 90, min_consecutive_samples |-> 10, deviation_ratio |-> 18 ]

NoAuto == [ pid |-> 0, metric |-> None, policy |-> secure_default, requested |-> None,
            correlation_bonuses |-> <<>>, correlation_reasons |-> <<>> ]

\* no operation has been called directly in the latest step
NoOperation == [ fn |-> "none" ]

\* the tick loop of start_background_tasks and the threads that serve the
\* commands of the UI
Threads == { "loop", "ui" }

\* a thread between two operations
IdleThread == [ op |-> "idle", pc |-> 0, arg |-> <<>>, tmp |-> <<>>, done |-> FALSE,
                result |-> "none" ]

\* no tail of a tick ran in the latest step
NoTail == [ ran |-> FALSE, events |-> <<>>, network |-> None, registry |-> None ]

Init ==
    /\ now = 0
    /\ process_metrics = <<>>
    /\ response_policy = secure_default
    /\ response_store = <<>>
    /\ action_cooldowns = EmptyMap
    /\ store = <<>>
    /\ dismissed_alerts = EmptyMap
    /\ event_store = <<>>
    /\ event_counter = 1
    /\ signature_cache = EmptyMap
    /\ cpu_history = EmptyMap
    /\ cpu_spike_config = default_cpu_spike_config
    /\ detection_profile = "Conservative"
    /\ tick = 0
    /\ tick_pc = "start"
    /\ loop_started = 0
    /\ wake_at = 0
    /\ metrics = <<>>
    /\ cursor = 0
    /\ signature_probes = 0
    /\ previous_metrics = <<>>
    /\ correlation = [ recent_process_start |-> EmptyMap,
                       recent_network_activity |-> EmptyMap,
                       last_registry_change |-> None ]
    /\ pending_auto = None
    /\ last_response = NoCall
    /\ last_auto = NoAuto
    /\ last_offers = <<>>
    /\ dispatch_log = EmptyMap
    /\ last_call = NoOperation
    /\ cpu_log = EmptyMap
    /\ dismiss_log = EmptyMap
    /\ known_store = <<>>
    /\ sensor_health = EmptyMap
    /\ previous_connections = {}
    /\ previous_registry_values = EmptyMap
    /\ last_tail = NoTail
    /\ override_log = [ calls |-> 0, standing |-> {} ]
    /\ registry_sampled = FALSE
    /\ process_tree = <<>>
    /\ threads = [ t \in Threads |-> IdleThread ]
    /\ held = [ t \in Threads |-> {} ]

alertVars == << store, dismissed_alerts >>

tickLocals == << tick, tick_pc, loop_started, wake_at, metrics, cursor, signature_probes,
                 previous_metrics, correlation, pending_auto >>

tickVars == << tickLocals >>

\* last_response and last_auto describe the call made by the latest step, if any
Quiet ==
    /\ last_response' = NoCall
    /\ last_auto' = NoAuto
    /\ last_offers' = <<>>
    /\ UNCHANGED dispatch_log

sensorVars == << signature_cache, cpu_history, cpu_spike_config, detection_profile >>

\* the steps of the loop and of the response engine make no direct call
historyVars == << cpu_log, dismiss_log >>

NoDirectCall == last_call' = NoOperation /\ UNCHANGED historyVars

\* the known entities, the sensor health and the samples kept for diffing are
\* left alone, and the step is not the tail of a tick
HostFrame ==
    /\ UNCHANGED << known_store, sensor_health, previous_connections,
                    previous_registry_values, override_log, registry_sampled,
                    process_tree, threads, held >>
    /\ last_tail' = NoTail

(***************************************************************************)
(* Environment: time passes                                                *)
(***************************************************************************)
ClockSteps == { SLEEP_SECS * SubSec }

AdvanceClock(d, horizon) ==
    /\ now + d <= horizon
    /\ now' = now + d
    /\ Quiet
    /\ UNCHANGED << process_metrics, response_policy, response_store, action_cooldowns,
                    event_store, event_counter >>
    /\ UNCHANGED << alertVars, tickVars, sensorVars >>
    /\ NoDirectCall
    /\ HostFrame

(***************************************************************************)
(* UI commands                                                             *)
(***************************************************************************)
set_response_policy(policy) ==
    /\ response_policy' = policy
    /\ Quiet
    /\ UNCHANGED << now, process_metrics, response_store, action_cooldowns,
                    event_store, event_counter >>
    /\ UNCHANGED << alertVars, tickVars, sensorVars >>
    /\ NoDirectCall
    /\ HostFrame

\* the set_process_trust_override command.  History: an override stands from
\* the first tick that starts after the call returned true until a later call
\* names one of its keys
set_process_trust_override(path, name, trust_level, label, persist_ok, max_calls) ==
    /\ override_log.calls < max_calls
    /\ \E o \in { OverrideOutcome(known_store, process_metrics, path, name, trust_level,
                                   label, persist_ok) } :
       \E keys \in { { o.keys[i] : i \in 1..Len(o.keys) } } :
       /\ known_store' = o.entities
       /\ process_metrics' = o.list
       /\ process_tree' = IF o.result = "true" THEN build_process_tree(o.list).nodes
                          ELSE process_tree
       /\ override_log' =
              [ calls |-> override_log.calls + 1,
                standing |->
                    IF o.result = "false" THEN override_log.standing
                    ELSE { x \in override_log.standing : x.keys \cap keys = {} }
                         \cup (IF o.result = "true"
                               THEN { [ keys |-> keys, trust_level |-> trust_level,
                                        label |-> o.label,
                                        from_tick |-> IF tick_pc = "start" THEN tick
                                                      ELSE tick + 1 ] }
                               ELSE {}) ]
       /\ last_call' = [ fn |-> "set_process_trust_override", path |-> path, name |-> name,
                         trust_level |-> trust_level, label |-> label, out |-> o.result ]
    /\ Quiet
    /\ last_tail' = NoTail
    /\ UNCHANGED << now, response_policy, response_store, action_cooldowns,
                    event_store, event_counter, sensor_health, previous_connections,
                    previous_registry_values, registry_sampled, threads, held >>
    /\ UNCHANGED << alertVars, tickVars, sensorVars, historyVars >>

\* the run_response_action command: RuntimeState::run_response_action with
\* automatic = false and no reason
ManualResponseWithin(pid, action_type, exec_ok, persist_ok, event_ok, max_records) ==
    /\ Len(response_store) < max_records
    /\ \E o \in { run_response_action(pid, action_type, None, FALSE,
                                      exec_ok, persist_ok, event_ok) } :
       ApplyResponse(o)
    /\ last_auto' = NoAuto
    /\ last_offers' = <<>>
    /\ UNCHANGED << now, process_metrics, response_policy, event_counter >>
    /\ UNCHANGED << alertVars, tickLocals, sensorVars >>
    /\ NoDirectCall
    /\ HostFrame

\* the run_response_action command while the response store is short of MaxRecords
ManualResponse(pid, action_type, exec_ok, persist_ok, event_ok) ==
    ManualResponseWithin(pid, action_type, exec_ok, persist_ok, event_ok, MaxRecords)

\* history: the signatures of the active alerts a delete removed, stamped now
LogDismissed(log, removed, now_utc) ==
    LET sigs == { alert_signature(removed[i]) : i \in 1..Len(removed) }
    IN  [ sig \in (DOMAIN log) \cup sigs |-> IF sig \in sigs THEN now_utc ELSE log[sig] ]

\* what the alert commands leave alone
AlertCommandFrame ==
    /\ Quiet
    /\ UNCHANGED << now, process_metrics, response_policy, response_store, action_cooldowns,
                    event_store, event_counter, cpu_log >>
    /\ UNCHANGED << tickVars, sensorVars >>
    /\ HostFrame

\* the acknowledge_alert command; persist_ok: the alert file could be written
acknowledge_alert(alert_id, persist_ok) ==
    /\ \E r \in { acknowledge(store, alert_id) } :
          /\ store' = r.alerts
          /\ last_call' = [ fn |-> "acknowledge_alert", alert_id |-> alert_id,
                            err |-> r.updated /\ ~persist_ok,
                            value |-> r.updated /\ persist_ok ]
    /\ UNCHANGED << dismissed_alerts, dismiss_log >>
    /\ AlertCommandFrame

\* the delete_alert command
delete_alert(alert_id, persist_ok) ==
    /\ \E deleted_alert \in { FindActive(store, alert_id) },
          r \in { delete(store, alert_id) } :
          /\ store' = r.alerts
          /\ dismissed_alerts' =
                 IF r.changed /\ persist_ok /\ IsSome(deleted_alert)
                 THEN mark_alert_dismissed(dismissed_alerts, Unwrap(deleted_alert), now)
                 ELSE dismissed_alerts
          /\ dismiss_log' =
                 LogDismissed(dismiss_log,
                              SelectSeq(store, LAMBDA a : a.id = alert_id /\ a.status = "Active"),
                              now)
          /\ last_call' = [ fn |-> "delete_alert", alert_id |-> alert_id,
                            err |-> r.changed /\ ~persist_ok,
                            value |-> r.changed /\ persist_ok ]
    /\ AlertCommandFrame

\* the delete_all_active_alerts command
delete_all_active_alerts(persist_ok) ==
    /\ \E active \in { active_alerts(store) },
          r \in { delete_all_active(store) } :
          /\ store' = r.alerts
          /\ dismissed_alerts' =
                 IF r.deleted > 0 /\ persist_ok
                 THEN mark_all_dismissed(dismissed_alerts, active, now)
                 ELSE dismissed_alerts
          /\ dismiss_log' = LogDismissed(dismiss_log, active, now)
          /\ last_call' = [ fn |-> "delete_all_active_alerts", alert_id |-> <<>>,
                            err |-> r.deleted > 0 /\ ~persist_ok,
                            value |-> r.deleted > 0 /\ persist_ok ]
    /\ AlertCommandFrame

(***************************************************************************)
(* Direct calls of the pure functions of detection/mod.rs                  *)
(***************************************************************************)
\* the functions are pure, so one call per behaviour covers every input
FirstCall == last_call = NoOperation

\* a direct call changes nothing but the record of the call
DirectCallFrame ==
    UNCHANGED << now, process_metrics, response_policy, response_store, action_cooldowns,
                 event_store, event_counter, alertVars, tickVars, sensorVars,
                 last_response, last_auto, last_offers, dispatch_log, historyVars >>
    /\ HostFrame

\* assess_process followed by build_alert, as in the loop body
AssessAndBuild(image, parent_name, is_signed, cpu_spike, profile) ==
    /\ FirstCall
    /\ \E metric \in { Stub(1, image) } :
       \E assessment \in { assess_process(metric, parent_name, is_signed, cpu_spike, profile) } :
          last_call' = [ fn |-> "build_alert", metric |-> metric, assessment |-> assessment,
                         cpu_spike |-> cpu_spike, profile |-> profile,
                         out |-> build_alert(metric, assessment, cpu_spike, now) ]
    /\ DirectCallFrame

Classify(score, base_level, trust_level, correlation_count, internal_process) ==
    /\ FirstCall
    /\ last_call' = [ fn |-> "classify_threat_verdict", score |-> score,
                      base_level |-> base_level, trust_level |-> trust_level,
                      correlation_count |-> correlation_count,
                      internal_process |-> internal_process,
                      out |-> classify_threat_verdict(score, base_level, trust_level,
                                                      correlation_count, internal_process) ]
    /\ DirectCallFrame


\* a direct call of build_process_tree
BuildTree(list) ==
    /\ FirstCall
    /\ last_call' = [ fn |-> "build_process_tree", list |-> list,
                      out |-> build_process_tree(list) ]
    /\ DirectCallFrame

\* a direct call of RuntimeState::update_cpu_and_check_spike(pid, sample)
CpuSample(pid, sample, max_calls) ==
    /\ (IF pid \in DOMAIN cpu_log THEN Len(cpu_log[pid]) ELSE 0) < max_calls
    /\ \E pushed \in { PushSample(cpu_history, pid, sample) } :
          /\ cpu_history' = pushed
          /\ last_call' = [ fn |-> "update_cpu_and_check_spike", pid |-> pid,
                            sample |-> sample,
                            out |-> CheckSpike(pushed[pid], cpu_spike_config) ]
    /\ cpu_log' = Put(cpu_log, pid,
                      Append(IF pid \in DOMAIN cpu_log THEN cpu_log[pid] ELSE <<>>, sample))
    /\ UNCHANGED << now, process_metrics, response_policy, response_store, action_cooldowns,
                    event_store, event_counter, alertVars, tickVars,
                    signature_cache, cpu_spike_config, detection_profile,
                    last_response, last_auto, last_offers, dispatch_log, dismiss_log >>
    /\ HostFrame

\* RuntimeState::set_cpu_spike_config, as called by set_cpu_spike_threshold
set_cpu_spike_config(config) ==
    /\ cpu_spike_config' = config
    /\ last_call' = [ fn |-> "set_cpu_spike_config", config |-> config ]
    /\ UNCHANGED << now, process_metrics, response_policy, response_store, action_cooldowns,
                    event_store, event_counter, alertVars, tickVars,
                    signature_cache, cpu_history, detection_profile,
                    last_response, last_auto, last_offers, dispatch_log, historyVars >>
    /\ HostFrame

\* a direct call of EventStore::insert_event on a store whose max_events is cap
InsertEvent(event, cap) ==
    /\ \E table \in insert_event_outcomes(event_store, event, cap) :
          event_store' = table
    /\ last_call' = [ fn |-> "insert_event", event |-> event, before |-> event_store ]
    /\ UNCHANGED << now, process_metrics, response_policy, response_store, action_cooldowns,
                    event_counter, alertVars, tickVars, sensorVars,
                    last_response, last_auto, last_offers, dispatch_log, historyVars >>
    /\ HostFrame

\* a direct call of EventStore::list_events
ListEvents(limit, event_type, sensor, search) ==
    /\ \E out \in list_events(event_store, limit, event_type, sensor, search) :
          last_call' = [ fn |-> "list_events", limit |-> limit, event_type |-> event_type,
                         sensor |-> sensor, search |-> search, out |-> out ]
    /\ DirectCallFrame

(***************************************************************************)
(* The tick loop of start_background_tasks                                 *)
(***************************************************************************)
\* top of the loop: prune the correlation window, sample the process sensor
TickStart(list, max_ticks) ==
    /\ tick_pc = "start"
    /\ tick < max_ticks
    /\ now >= wake_at
    /\ loop_started' = now
    /\ correlation' = prune(correlation, now)
    /\ metrics' = list
    /\ cursor' = 1
    /\ signature_probes' = 0
    /\ tick_pc' = "metric"
    /\ Quiet
    /\ UNCHANGED << now, process_metrics, response_policy, response_store, action_cooldowns,
                    event_store, event_counter, tick, wake_at,
                    previous_metrics, pending_auto >>
    /\ UNCHANGED << alertVars, sensorVars >>
    /\ NoDirectCall
    /\ HostFrame

\* one iteration of "for metric in &mut metrics", up to the point where
\* maybe_run_auto_response has chosen its action
TickMetric(persist1, persist2, event_ok) ==
    /\ tick_pc = "metric"
    /\ cursor <= Len(metrics)
    /\ LET stub == metrics[cursor]
           cached == IsSome(stub.exe_path) /\ Unwrap(stub.exe_path) \in DOMAIN signature_cache
           probe  == IsSome(stub.exe_path) /\ ~cached /\ signature_probes < SIGNATURE_PROBE_BUDGET
           signed == IF cached THEN Some(signature_cache[Unwrap(stub.exe_path)])
                     ELSE IF probe THEN Some(is_binary_signed(Unwrap(stub.exe_path)))
                     ELSE None
       IN
       \E corr \in { IF IsSome(FindMetric(previous_metrics, stub.pid))
                     THEN correlation
                     ELSE mark_process_start(correlation, stub.pid, loop_started) },
          pushed \in { PushSample(cpu_history, stub.pid, stub.cpu_pct) } :
       \E cpu_spike \in { CheckSpike(pushed[stub.pid], cpu_spike_config) } :
       \E scored \in { ScoreMetric(stub, metrics, corr, signed, cpu_spike,
                                   detection_profile, loop_started, known_store) } :
       \E metric \in { scored.metric },
          st0 \in { [ alerts |-> store, dismissed |-> dismissed_alerts,
                      events |-> event_store, counter |-> event_counter,
                      offers |-> <<>> ] } :
       \E st1 \in { OfferAlert(st0, build_alert(metric, scored.assessment, cpu_spike, now),
                               metric, persist1, event_ok, now) } :
       \E st2 \in { OfferAlert(st1, build_correlated_alert(metric, metric.risk_score,
                                                           metric.verdict,
                                                           scored.correlation_reasons, now),
                               metric, persist2, event_ok, now) } :
       \E final \in { IF scored.internal_process THEN st0 ELSE st2 },
          requested \in { IF scored.internal_process THEN None
                          ELSE maybe_run_auto_response(metric, response_policy) } :
       /\ correlation' = corr
       /\ signature_probes' = IF probe THEN signature_probes + 1 ELSE signature_probes
       /\ signature_cache' = IF probe
                             THEN Put(signature_cache, Unwrap(stub.exe_path), Unwrap(signed))
                             ELSE signature_cache
       /\ cpu_history' = pushed
       /\ metrics' = [ metrics EXCEPT ![cursor] = metric ]
       /\ store' = final.alerts
       /\ dismissed_alerts' = final.dismissed
       /\ event_store' = final.events
       /\ event_counter' = final.counter
       /\ last_offers' = final.offers
       /\ last_auto' = [ pid |-> metric.pid, metric |-> Some(metric),
                         policy |-> response_policy, requested |-> requested,
                         correlation_bonuses |-> scored.correlation_bonuses,
                         correlation_reasons |-> scored.correlation_reasons ]
       /\ IF IsSome(requested)
          THEN /\ pending_auto' = Some([ pid |-> metric.pid, action_type |-> Unwrap(requested) ])
               /\ tick_pc' = "respond"
               /\ cursor' = cursor
          ELSE /\ pending_auto' = None
               /\ tick_pc' = "metric"
               /\ cursor' = cursor + 1
    /\ last_response' = NoCall
    /\ UNCHANGED << now, process_metrics, response_policy, response_store, action_cooldowns,
                    tick, loop_started, wake_at, previous_metrics, dispatch_log,
                    cpu_spike_config, detection_profile >>
    /\ NoDirectCall
    /\ HostFrame

\* the run_response_action call of maybe_run_auto_response and the response alert
TickRespond(exec_ok, persist_ok, persist_alert, event_ok) ==
    /\ tick_pc = "respond"
    /\ \E req \in { Unwrap(pending_auto) }, metric \in { metrics[cursor] } :
       \E o \in { run_response_action(req.pid, req.action_type, Some(R_AUTO), TRUE,
                                      exec_ok, persist_ok, event_ok) } :
       \E st0 \in { [ alerts |-> store, dismissed |-> dismissed_alerts,
                      events |-> IF o.published
                                 THEN insert_event(event_store, Unwrap(o.event))
                                 ELSE event_store,
                      counter |-> event_counter, offers |-> <<>> ] },
          response_alert \in {
               IF o.kind = "ok"
               THEN LET record == Unwrap(o.record) IN
                    Some([ id |-> << "response-action", record.pid, now >>,
                           alert_type |-> "response_action",
                           severity |-> IF record.success THEN "Warn" ELSE "Critical",
                           pid |-> Some(record.pid),
                           title |-> << T_RESPONSE, record.process_name >>,
                           evidence |-> << <<record.reason>>,
                                           <<"Action: ", record.action_type>>,
                                           <<"Score: ", record.score>> >>,
                           timestamp |-> Some(now),
                           status |-> "Active" ])
               ELSE None } :
       \E st1 \in { OfferAlert(st0, response_alert, metric, persist_alert, event_ok, now) } :
       /\ ApplyResponseState(o)
       /\ store' = st1.alerts
       /\ dismissed_alerts' = st1.dismissed
       /\ event_store' = st1.events
       /\ event_counter' = st1.counter
       /\ last_offers' = st1.offers
    /\ pending_auto' = None
    /\ tick_pc' = "metric"
    /\ cursor' = cursor + 1
    /\ UNCHANGED << now, process_metrics, response_policy, tick, loop_started, wake_at,
                    metrics, signature_probes, previous_metrics, correlation, last_auto >>
    /\ UNCHANGED sensorVars
    /\ NoDirectCall
    /\ HostFrame

(***************************************************************************)
(* The tail of a tick: lifecycle events, network and registry samples      *)
(***************************************************************************)
NETWORK_REFRESH_TICKS == 3

REGISTRY_REFRESH_TICKS == 5

\* str::ends_with
ends_with(str, suffix) ==
    \E s \in {str}, p \in {suffix} :
        /\ Len(p) <= Len(s)
        /\ \A i \in 1..Len(p) : s[Len(s) - Len(p) + i] = p[i]

\* the orders in which the entries of a HashMap or HashSet can be visited
Orderings(S) ==
    { f \in [ 1..Cardinality(S) -> S ] :
        \A i, j \in 1..Cardinality(S) : i # j => f[i] # f[j] }

\* RuntimeState::record_sensor_success: status and last_error of the entry
record_sensor_success(health, sensor) ==
    Put(health, sensor, [ status |-> "ok", last_error |-> None ])

\* the entry marked degraded without the error text
record_sensor_error_no_text(health, sensor, error) ==
    Put(health, sensor, [ status |-> "degraded", last_error |-> None ])

\* RuntimeState::record_sensor_error
record_sensor_error(health, sensor, error) ==
    Put(health, sensor, [ status |-> "degraded", last_error |-> Some(error) ])

\* the sensors whose health entry is kept in sensor_health
SampledSensors == { "network", "registry" }

\* RuntimeState::push_event on each event of a list in turn, the result of the
\* call dropped (let _ =); event_ok tells whether the event store takes the row
RECURSIVE PushEvents(_, _, _, _)
PushEvents(st, events, i, event_ok) ==
    IF i > Len(events) THEN st
    ELSE PushEvents(
             [ events |-> IF event_ok THEN insert_event(st.events, events[i]) ELSE st.events,
               counter |-> st.counter + 1,
               emitted |-> Append(st.emitted, events[i]),
               health |-> IF event_ok /\ events[i].sensor \in SampledSensors
                          THEN record_sensor_success(st.health, events[i].sensor)
                          ELSE st.health ],
             events, i + 1, event_ok)

LifecycleEvent(event_type, metric, now_utc, counter) ==
    [ event_id |-> next_event_id("process", event_type, now_utc, counter),
      timestamp_utc |-> now_utc,
      event_type |-> event_type,
      sensor |-> "process",
      severity |-> "Info",
      process |-> Some(process_identity(metric)),
      rule_hits |-> <<>>,
      risk_score |-> Some(metric.risk_score),
      verdict |-> Some(metric.verdict),
      evidence_refs |-> <<>> ]

\* every metric of the previous tick, gone or not
StoppedMetrics_all_previous(previous, current) ==
    { previous[i] : i \in 1..Len(previous) }

\* the metrics of the previous tick whose pid the current list lacks
StoppedMetrics(previous, current) ==
    { previous[i] : i \in { k \in 1..Len(previous) :
                              ~IsSome(FindMetric(current, previous[k].pid)) } }

\* emit_process_lifecycle_events; stopped is the order in which the map of
\* the previous tick yields the processes that are gone
emit_process_lifecycle_events(st, previous, current, stopped, now_utc, event_ok) ==
    LET started == SelectSeq(current, LAMBDA m : ~IsSome(FindMetric(previous, m.pid)))
        events ==
            [ k \in 1..Len(started) |->
                LifecycleEvent("process_started", started[k], now_utc, st.counter + k - 1) ]
            \o [ k \in 1..Len(stopped) |->
                   LifecycleEvent("process_stopped", stopped[k], now_utc,
                                  st.counter + Len(started) + k - 1) ]
    IN  PushEvents(st, events, 1, event_ok)

\* NetworkConnection::key
connection_key(connection) ==
    to_lowercase(connection.protocol) \o <<"|">>
    \o to_lowercase(connection.local_address) \o <<"|">>
    \o to_lowercase(connection.remote_address) \o <<"|">>
    \o to_lowercase(IF IsSome(connection.state) THEN Unwrap(connection.state) ELSE <<>>)
    \o <<"|", connection.pid>>

\* the test without the listening-socket rule
should_emit_network_connection_remote_only(connection) ==
    \E remote \in { trim(connection.remote_address) } :
        ~(\/ remote = <<>>
          \/ remote = <<"*",":","*">>
          \/ ends_with(remote, <<":","0">>)
          \/ starts_with(remote, <<"0",".","0",".","0",".","0">>)
          \/ starts_with(remote, <<"[",":",":","]",":">>))

should_emit_network_connection(connection) ==
    IF /\ to_lowercase(connection.protocol) = <<"t","c","p">>
       /\ IsSome(connection.state)
       /\ to_lowercase(Unwrap(connection.state)) = <<"l","i","s","t","e","n","i","n","g">>
    THEN FALSE
    ELSE \E remote \in { trim(connection.remote_address) } :
            ~(\/ remote = <<>>
              \/ remote = <<"*",":","*">>
              \/ ends_with(remote, <<":","0">>)
              \/ starts_with(remote, <<"0",".","0",".","0",".","0">>)
              \/ starts_with(remote, <<"[",":",":","]",":">>))

ConnectionEvent(connection, list, now_utc, counter) ==
    [ event_id |-> next_event_id("network", "connection_opened", now_utc, counter),
      timestamp_utc |-> now_utc,
      event_type |-> "connection_opened",
      sensor |-> "network",
      severity |-> "Info",
      process |-> IF IsSome(FindMetric(list, connection.pid))
                  THEN Some(process_identity(Unwrap(FindMetric(list, connection.pid))))
                  ELSE None,
      network |-> Some(connection),
      rule_hits |-> <<>>,
      risk_score |-> None,
      verdict |-> None,
      evidence_refs |-> <<>> ]

\* emit_network_events: the events pushed, the new previous_connections and
\* the pids returned
emit_network_events(st, list, previous, connections, now_utc, event_ok) ==
    LET fresh == SelectSeq(connections,
                           LAMBDA c : /\ connection_key(c) \notin previous
                                      /\ should_emit_network_connection(c))
        events == [ k \in 1..Len(fresh) |->
                      ConnectionEvent(fresh[k], list, now_utc, st.counter + k - 1) ]
    IN  [ st |-> PushEvents(st, events, 1, event_ok),
          previous |-> { connection_key(connections[i]) : i \in 1..Len(connections) },
          pids |-> { fresh[k].pid : k \in 1..Len(fresh) } ]

\* the network branch of the loop for the result of collect_connections
SampleNetwork(st, list, previous, network, now_utc, event_ok) ==
    IF network.ok
    THEN emit_network_events([ st EXCEPT !.health = record_sensor_success(st.health, "network") ],
                             list, previous, network.connections, now_utc, event_ok)
    ELSE [ st |-> [ st EXCEPT !.health = record_sensor_error(st.health, "network",
                                                             network.error) ],
           previous |-> previous,
           pids |-> {} ]

\* the keys the first loop of emit_registry_change_events emits an event for
ChangedKeys(previous, current) ==
    { k \in DOMAIN current : k \notin DOMAIN previous \/ previous[k] # current[k] }

\* the keys its second loop emits an event for
RemovedKeys(previous, current) == (DOMAIN previous) \ (DOMAIN current)

RegistryEvent(event_type, k, old_value, new_value, score, verdict, now_utc, counter) ==
    [ event_id |-> next_event_id("registry", event_type, now_utc, counter),
      timestamp_utc |-> now_utc,
      event_type |-> event_type,
      sensor |-> "registry",
      severity |-> "Warn",
      process |-> None,
      registry |-> Some([ composite_key |-> k, old_value |-> old_value,
                          new_value |-> new_value ]),
      rule_hits |-> << <<"registry_persistence_watch">> >>,
      risk_score |-> Some(score),
      verdict |-> Some(verdict),
      evidence_refs |-> <<>> ]

\* emit_registry_change_events; changed and removed are the orders in which
\* the two maps yield the keys that differ
emit_registry_change_events(st, previous, current, changed, removed, now_utc, event_ok) ==
    LET events ==
            [ i \in 1..Len(changed) |->
                IF changed[i] \notin DOMAIN previous
                THEN RegistryEvent("registry_value_added", changed[i], None,
                                   Some(current[changed[i]]), 35, "low_risk",
                                   now_utc, st.counter + i - 1)
                ELSE RegistryEvent("registry_value_changed", changed[i],
                                   Some(previous[changed[i]]), Some(current[changed[i]]),
                                   45, "suspicious", now_utc, st.counter + i - 1) ]
            \o [ i \in 1..Len(removed) |->
                   RegistryEvent("registry_value_removed", removed[i],
                                 Some(previous[removed[i]]), None, 40, "low_risk",
                                 now_utc, st.counter + Len(changed) + i - 1) ]
    IN  [ st |-> PushEvents(st, events, 1, event_ok),
          changed |-> Len(events) > 0 ]

\* the registry branch of the loop for the result of snapshot_critical_values
SampleRegistry(st, previous, registry, changed, removed, now_utc, event_ok) ==
    IF registry.ok
    THEN LET r == emit_registry_change_events(
                      [ st EXCEPT !.health = record_sensor_success(st.health, "registry") ],
                      previous, registry.snapshot, changed, removed, now_utc, event_ok)
         IN  [ st |-> r.st, previous |-> registry.snapshot, changed |-> r.changed ]
    ELSE [ st |-> [ st EXCEPT !.health = record_sensor_error(st.health, "registry",
                                                             registry.error) ],
           previous |-> previous,
           changed |-> FALSE ]

mark_network_activity(corr, pid, at) ==
    [ corr EXCEPT !.recent_network_activity = Put(corr.recent_network_activity, pid, at) ]

\* for pid in network_pids { correlation.mark_network_activity(pid, Instant::now()) }
MarkNetworkPids(corr, pids, at) ==
    [ corr EXCEPT !.recent_network_activity =
          [ pid \in (DOMAIN corr.recent_network_activity) \cup pids |->
              IF pid \in pids THEN at ELSE corr.recent_network_activity[pid] ] ]

mark_registry_change(corr, at) == [ corr EXCEPT !.last_registry_change = Some(at) ]

\* a sample of a sensor that finds nothing
QuietNetwork == [ ok |-> TRUE, connections |-> <<>> ]

QuietRegistry == [ ok |-> TRUE, snapshot |-> EmptyMap ]

\* after the for loop: lifecycle events, the network and registry samples,
\* then publish the snapshot, remember it, sleep
TickFinish(network, registry, event_ok) ==
    /\ tick_pc = "metric"
    /\ cursor > Len(metrics)
    /\ \E net_due \in { tick % NETWORK_REFRESH_TICKS = 0 },
          reg_due \in { tick % REGISTRY_REFRESH_TICKS = 0 } :
       \E snapshot \in { IF reg_due /\ registry.ok THEN registry.snapshot
                         ELSE previous_registry_values } :
       \E stopped \in Orderings(IF tick > 0 THEN StoppedMetrics(previous_metrics, metrics)
                                ELSE {}),
          changed \in Orderings(ChangedKeys(previous_registry_values, snapshot)),
          removed \in Orderings(RemovedKeys(previous_registry_values, snapshot)) :
       \E s0 \in { [ events |-> event_store, counter |-> event_counter,
                     emitted |-> <<>>, health |-> sensor_health ] } :
       \E s1 \in { IF tick > 0
                   THEN emit_process_lifecycle_events(s0, previous_metrics, metrics,
                                                      stopped, now, event_ok)
                   ELSE s0 } :
       \E net \in { IF net_due
                    THEN SampleNetwork(s1, metrics, previous_connections, network,
                                       now, event_ok)
                    ELSE [ st |-> s1, previous |-> previous_connections, pids |-> {} ] } :
       \E reg \in { IF reg_due
                    THEN SampleRegistry(net.st, previous_registry_values, registry,
                                        changed, removed, now, event_ok)
                    ELSE [ st |-> net.st, previous |-> previous_registry_values,
                           changed |-> FALSE ] } :
       /\ event_store' = reg.st.events
       /\ event_counter' = reg.st.counter
       /\ sensor_health' = reg.st.health
       /\ previous_connections' = net.previous
       /\ previous_registry_values' = reg.previous
       /\ registry_sampled' = (registry_sampled \/ (reg_due /\ registry.ok))
       /\ correlation' =
              (LET marked == MarkNetworkPids(correlation, net.pids, now)
               IN  IF reg.changed THEN mark_registry_change(marked, now) ELSE marked)
       /\ last_tail' = [ ran |-> TRUE, events |-> reg.st.emitted,
                         network |-> IF net_due THEN Some(network) ELSE None,
                         registry |-> IF reg_due THEN Some(registry) ELSE None ]
    /\ cpu_history' = Retain(cpu_history,
                             { pid \in DOMAIN cpu_history : IsSome(FindMetric(metrics, pid)) })
    /\ process_tree' = build_process_tree(metrics).nodes
    /\ process_metrics' = metrics
    /\ previous_metrics' = metrics
    /\ tick' = tick + 1
    /\ wake_at' = now + SLEEP_SECS * SubSec
    /\ tick_pc' = "start"
    /\ Quiet
    /\ UNCHANGED << now, response_policy, response_store, action_cooldowns,
                    loop_started, metrics, cursor,
                    signature_probes, pending_auto,
                    signature_cache, cpu_spike_config, detection_profile >>
    /\ UNCHANGED << alertVars, known_store, override_log, threads, held >>
    /\ NoDirectCall


(***************************************************************************)
(* app_state.rs at the grain of its locks. An operation of RuntimeState is *)
(* the sequence of lock acquisitions and releases its code makes; what it  *)
(* reads and writes under a lock takes effect when the lock is released.   *)
(* A thread runs one operation at a time, the loop and the UI in parallel. *)
(***************************************************************************)
\* .lock() / .read() / .write() and the drop of the guard
Acq(lock, mode) == [ a |-> "acq", lock |-> lock, mode |-> mode, effect |-> "none" ]

Rel(lock, effect) == [ a |-> "rel", lock |-> lock, mode |-> "none", effect |-> effect ]

\* push_event: the event store, then record_sensor_success, then the counter
PushEventLocks ==
    << Acq("event_store", "lock"), Rel("event_store", "none"),
       Acq("sensor_health", "lock"), Rel("sensor_health", "none"),
       Acq("sensor_health", "lock"), Rel("sensor_health", "none") >>

\* update_usage_history: get_process_metrics, then usage and known_pids, both
\* held to the end of the function and dropped in reverse order
UsageHistoryLocks ==
    << Acq("process_metrics", "read"), Rel("process_metrics", "none"),
       Acq("app_usage_history", "lock"), Acq("known_pids", "lock"),
       Rel("known_pids", "none"), Rel("app_usage_history", "none") >>

\* is_action_allowed_by_cooldown and update_action_cooldown, automatic runs only
CooldownLocks(automatic) ==
    IF automatic
    THEN << Acq("action_cooldowns", "lock"), Rel("action_cooldowns", "none") >>
    ELSE <<>>

\* get_app_usage_history taking known_pids as well, before the usage history
GetUsageHistoryLocks_known_pids_first ==
    << Acq("known_pids", "lock"), Acq("app_usage_history", "lock"),
       Rel("app_usage_history", "none"), Rel("known_pids", "none") >>

\* get_app_usage_history: the usage history alone
GetUsageHistoryLocks ==
    << Acq("app_usage_history", "lock"), Rel("app_usage_history", "none") >>

\* the lock steps of an operation, in program order
LockScript(op, arg) ==
    CASE op = "update_snapshot" ->
             << Acq("process_tree", "write"), Rel("process_tree", "write_tree"),
                Acq("process_metrics", "write"), Rel("process_metrics", "write_metrics") >>
             \o UsageHistoryLocks
      [] op = "add_alert_if_new" ->
             << Acq("dismissed_alerts", "lock"), Rel("dismissed_alerts", "is_alert_suppressed"),
                Acq("store", "lock"), Rel("store", "push") >>
      [] op = "push_event" -> PushEventLocks
      [] op = "run_response_action" ->
             << Acq("process_metrics", "read"), Rel("process_metrics", "none"),
                Acq("response_policy", "read"), Rel("response_policy", "none") >>
             \o CooldownLocks(arg.automatic)
             \o << Acq("response_store", "lock"), Rel("response_store", "none") >>
             \o CooldownLocks(arg.automatic)
             \o PushEventLocks
      [] op = "delete_alert" ->
             << Acq("store", "lock"), Rel("store", "delete"),
                Acq("dismissed_alerts", "lock"), Rel("dismissed_alerts", "mark_alert_dismissed") >>
      [] op = "acknowledge_alert" ->
             << Acq("store", "lock"), Rel("store", "acknowledge") >>
      [] op = "set_process_trust_override" ->
             << Acq("known_store", "lock"), Rel("known_store", "upsert"),
                Acq("process_metrics", "write"), Rel("process_metrics", "apply_override"),
                Acq("process_tree", "write"), Rel("process_tree", "write_tree") >>
      [] op = "set_response_policy" ->
             << Acq("response_policy", "write"), Rel("response_policy", "write_policy") >>
      [] op = "get_process_tree" ->
             << Acq("process_tree", "read"), Rel("process_tree", "none") >>
      [] op = "get_process_metrics" ->
             << Acq("process_metrics", "read"), Rel("process_metrics", "none") >>
      [] op = "get_app_usage_history" -> GetUsageHistoryLocks
      [] OTHER -> <<>>

\* the thread is inside an operation, before its return
Running(t) == threads[t].op # "idle"

Returning(t) ==
    /\ Running(t)
    /\ \/ threads[t].done
       \/ threads[t].pc > Len(LockScript(threads[t].op, threads[t].arg))

\* the lock step the thread is at
AtStep(t) == LockScript(threads[t].op, threads[t].arg)[threads[t].pc]

\* Mutex::lock and RwLock::write wait until nobody holds the lock;
\* RwLock::read waits while a writer holds it
CanAcquire(lock, mode) ==
    IF mode = "read"
    THEN \A u \in Threads : << lock, "write" >> \notin held[u]
    ELSE \A u \in Threads : \A x \in held[u] : x[1] # lock

\* the thread is at the end of a critical section
AtRelease(t) == Running(t) /\ ~Returning(t) /\ AtStep(t).a = "rel"

\* the thread waits for a lock that is not free
Waiting(t) ==
    /\ Running(t) /\ ~Returning(t)
    /\ AtStep(t).a = "acq"
    /\ ~CanAcquire(AtStep(t).lock, AtStep(t).mode)

\* what the code does under the lock it releases: the new values of the
\* shared data and of the locals of the operation
ReleaseOutcome(th, effect) ==
    LET same == [ store |-> store, dismissed |-> dismissed_alerts, known |-> known_store,
                  metrics |-> process_metrics, tree |-> process_tree,
                  policy |-> response_policy,
                  tmp |-> th.tmp, done |-> FALSE, result |-> th.result ]
    IN
    CASE effect = "write_tree" -> [ same EXCEPT !.tree = th.tmp.tree ]
      [] effect = "write_metrics" -> [ same EXCEPT !.metrics = th.arg.metrics ]
      [] effect = "write_policy" -> [ same EXCEPT !.policy = th.arg.policy ]
      [] effect = "is_alert_suppressed" ->
             [ same EXCEPT !.dismissed = PruneDismissed(dismissed_alerts, now),
                           !.done = is_alert_suppressed(dismissed_alerts, th.arg.alert, now),
                           !.result = "false" ]
      [] effect = "push" ->
             IF IsDuplicate(store, th.arg.alert, now) THEN [ same EXCEPT !.result = "false" ]
             ELSE [ same EXCEPT !.store = Append(store, th.arg.alert),
                                !.result = IF th.arg.persist_ok THEN "true" ELSE "err" ]
      [] effect = "delete" ->
             CHOOSE r \in
                 { [ same EXCEPT
                       !.store = d.alerts,
                       !.tmp = [ th.tmp EXCEPT !.deleted_alert = found ],
                       !.result = IF d.changed /\ ~th.arg.persist_ok THEN "err"
                                  ELSE IF d.changed THEN "true" ELSE "false",
                       !.done = ~(d.changed /\ th.arg.persist_ok /\ IsSome(found)) ] :
                   found \in { FindActive(store, th.arg.alert_id) },
                   d \in { delete(store, th.arg.alert_id) } } : TRUE
      [] effect = "mark_alert_dismissed" ->
             [ same EXCEPT !.dismissed = mark_alert_dismissed(
                                             dismissed_alerts,
                                             Unwrap(th.tmp.deleted_alert), now),
                           !.tmp = [ th.tmp EXCEPT !.dismissed_at = now ] ]
      [] effect = "acknowledge" ->
             CHOOSE r \in
                 { [ same EXCEPT
                       !.store = a.alerts,
                       !.result = IF a.updated /\ ~th.arg.persist_ok THEN "err"
                                  ELSE IF a.updated THEN "true" ELSE "false" ] :
                   a \in { acknowledge(store, th.arg.alert_id) } } : TRUE
      [] effect = "upsert" ->
             CHOOSE r \in
                 { [ same EXCEPT
                       !.known = o.entities,
                       !.tmp = [ keys |-> o.keys, label |-> o.label, tree |-> <<>> ],
                       !.result = o.result,
                       !.done = o.result # "true" ] :
                   o \in { OverrideOutcome(known_store, <<>>, th.arg.path, th.arg.name,
                                           th.arg.trust_level, th.arg.label,
                                           th.arg.persist_ok) } } : TRUE
      [] effect = "apply_override" ->
             CHOOSE r \in
                 { [ same EXCEPT !.metrics = list,
                                 !.tmp = [ th.tmp EXCEPT !.tree = build_process_tree(list).nodes ] ] :
                   list \in { apply_process_override_to_snapshot(
                                  process_metrics, th.tmp.keys, th.arg.trust_level,
                                  th.tmp.label) } } : TRUE
      [] OTHER -> same

\* what a step of a thread leaves alone
ThreadFrame ==
    /\ UNCHANGED << now, response_store, action_cooldowns, event_store, event_counter,
                    sensor_health, previous_connections, previous_registry_values,
                    registry_sampled, last_tail, last_response, last_auto, last_offers,
                    dispatch_log, cpu_log >>
    /\ UNCHANGED << tickVars, sensorVars >>

SharedData == << process_metrics, process_tree, response_policy, store, dismissed_alerts,
                 known_store >>

\* a thread enters an operation; overrides is 1 for a trust override, which
\* the history counts, and 0 otherwise
Enter(t, op, arg, tmp, overrides) ==
    /\ ~Running(t)
    /\ threads' = [ threads EXCEPT ![t] = [ op |-> op, pc |-> 1, arg |-> arg, tmp |-> tmp,
                                            done |-> FALSE, result |-> "none" ] ]
    /\ override_log' = [ override_log EXCEPT !.calls = @ + overrides ]
    /\ last_call' = NoOperation
    /\ UNCHANGED << held, dismiss_log >>
    /\ UNCHANGED SharedData
    /\ ThreadFrame

Begin(t, op, arg, tmp) == Enter(t, op, arg, tmp, 0)

\* the thread takes the lock it is waiting for
Acquire(t) ==
    /\ Running(t) /\ ~Returning(t)
    /\ AtStep(t).a = "acq"
    /\ CanAcquire(AtStep(t).lock, AtStep(t).mode)
    /\ held' = [ held EXCEPT ![t] = @ \cup { << AtStep(t).lock, AtStep(t).mode >> } ]
    /\ threads' = [ threads EXCEPT ![t].pc = @ + 1 ]
    /\ last_call' = NoOperation
    /\ UNCHANGED << override_log, dismiss_log >>
    /\ UNCHANGED SharedData
    /\ ThreadFrame

\* the thread leaves a critical section
Release(t) ==
    /\ AtRelease(t)
    /\ \E r \in { ReleaseOutcome(threads[t], AtStep(t).effect) } :
          /\ store' = r.store
          /\ dismissed_alerts' = r.dismissed
          /\ known_store' = r.known
          /\ process_metrics' = r.metrics
          /\ process_tree' = r.tree
          /\ response_policy' = r.policy
          /\ threads' = [ threads EXCEPT ![t].pc = @ + 1, ![t].tmp = r.tmp,
                                         ![t].done = r.done, ![t].result = r.result ]
    /\ held' = [ held EXCEPT ![t] = { x \in @ : x[1] # AtStep(t).lock } ]
    /\ last_call' = NoOperation
    /\ UNCHANGED << override_log, dismiss_log >>
    /\ ThreadFrame

\* the operation returns; a delete_alert that returns true for an active
\* alert is entered in the history of deletions with the time of its
\* dismissal
Return(t) ==
    /\ Returning(t)
    /\ threads' = [ threads EXCEPT ![t] = IdleThread ]
    /\ last_call' = [ fn |-> threads[t].op, thread |-> t, arg |-> threads[t].arg,
                      out |-> threads[t].result ]
    /\ dismiss_log' =
           IF /\ threads[t].op = "delete_alert"
              /\ threads[t].result = "true"
              /\ IsSome(threads[t].tmp.deleted_alert)
           THEN Put(dismiss_log, alert_signature(Unwrap(threads[t].tmp.deleted_alert)),
                    threads[t].tmp.dismissed_at)
           ELSE dismiss_log
    /\ UNCHANGED << held, override_log >>
    /\ UNCHANGED SharedData
    /\ ThreadFrame

Next ==
    \/ \E d \in ClockSteps : AdvanceClock(d, MaxSeconds * SubSec)
    \/ \E policy \in PolicyInputs : set_response_policy(policy)
    \/ \E pid \in Pids, action_type \in ActionTypes,
          exec_ok \in BOOLEAN, persist_ok \in BOOLEAN, event_ok \in BOOLEAN :
           ManualResponse(pid, action_type, exec_ok, persist_ok, event_ok)
    \/ \E list \in collect_process_metrics : TickStart(list, MaxTicks)
    \/ TickMetric(TRUE, TRUE, TRUE)
    \/ \E exec_ok \in BOOLEAN, persist_ok \in BOOLEAN, event_ok \in BOOLEAN :
           TickRespond(exec_ok, persist_ok, TRUE, event_ok)
    \/ TickFinish(QuietNetwork, QuietRegistry, TRUE)

Spec == Init /\ [][Next]_vars

(***************************************************************************)
(* The same program observed over three ticks with a sub-second clock: one *)
(* script host stays alive under every pid and the UI submits only         *)
(* Constrain policies without safe mode, so that the cooldown guard of     *)
(* automatic runs decides.                                                  *)
(***************************************************************************)
MaxCooldownTicks == 3

MaxCooldownSeconds == 5

CooldownClockSteps == { SubSec, SLEEP_SECS * SubSec }

CooldownImage == [ name |-> S_cmd, exe_path |-> Some(P_roaming_cmd) ]

CooldownLists == { ListOf([ pid \in Pids |-> Some(CooldownImage) ], 1) }

CooldownPolicies == { p \in ConstrainPolicies : ~p.safe_mode /\ p.auto_constrain_threshold = 4 }

NextCooldown ==
    \/ \E d \in CooldownClockSteps : AdvanceClock(d, MaxCooldownSeconds * SubSec)
    \/ \E policy \in CooldownPolicies : set_response_policy(policy)
    \/ \E pid \in Pids, action_type \in ActionTypes :
           ManualResponse(pid, action_type, TRUE, TRUE, TRUE)
    \/ \E list \in CooldownLists : TickStart(list, MaxCooldownTicks)
    \/ TickMetric(TRUE, TRUE, TRUE)
    \/ \E exec_ok \in BOOLEAN, persist_ok \in BOOLEAN : TickRespond(exec_ok, persist_ok, TRUE, TRUE)
    \/ TickFinish(QuietNetwork, QuietRegistry, TRUE)

SpecCooldown == Init /\ [][NextCooldown]_vars

(***************************************************************************)
(* The same loop with one standing Constrain policy and a UI that runs     *)
(* response actions by hand after the loop has run its own, so that manual *)
(* runs meet cooldown entries written by automatic runs.                    *)
(***************************************************************************)
MaxManualTicks == 2

MaxManualRecords == 2

ManualPolicies == { p \in CooldownPolicies : ~p.allow_terminate }

NextManual ==
    \/ AdvanceClock(SLEEP_SECS * SubSec, MaxManualTicks * SLEEP_SECS * SubSec)
    \/ \E policy \in ManualPolicies : set_response_policy(policy)
    \/ \E pid \in Pids, action_type \in ActionTypes :
           ManualResponseWithin(pid, action_type, TRUE, TRUE, TRUE, MaxManualRecords)
    \/ \E list \in CooldownLists : TickStart(list, MaxManualTicks)
    \/ TickMetric(TRUE, TRUE, TRUE)
    \/ \E exec_ok \in BOOLEAN, persist_ok \in BOOLEAN : TickRespond(exec_ok, persist_ok, TRUE, TRUE)
    \/ TickFinish(QuietNetwork, QuietRegistry, TRUE)

SpecManual == Init /\ [][NextManual]_vars

(***************************************************************************)
(* The same program with the default policy (Audit, so the tick loop runs  *)
(* no response) and a clock that can jump over the de-duplication window   *)
(* of the alert pipeline.                                                   *)
(***************************************************************************)
AlertClockSteps ==
    { ALERT_DEDUP_SECONDS * SubSec, ALERT_DEDUP_SECONDS * SubSec + 1,
      (ALERT_DEDUP_SECONDS + 1) * SubSec }

AlertHorizon == (ALERT_DEDUP_SECONDS + 1) * SubSec

NextAlerts ==
    \/ \E d \in AlertClockSteps : AdvanceClock(d, AlertHorizon)
    \/ \E list \in collect_process_metrics : TickStart(list, MaxTicks)
    \/ \E persist1 \in BOOLEAN, persist2 \in BOOLEAN, event_ok \in BOOLEAN :
           TickMetric(persist1, persist2, event_ok)
    \/ TickFinish(QuietNetwork, QuietRegistry, TRUE)

SpecAlerts == Init /\ [][NextAlerts]_vars

(***************************************************************************)
(* The same program with the default policy, one script host that raises   *)
(* the same alert at every tick, the alert commands of the UI, and a clock *)
(* that can jump to either side of the end of the suppression window.      *)
(***************************************************************************)
MaxDismissTicks == 3

DismissClockSteps ==
    { ALERT_SUPPRESSION_SECONDS * SubSec - 1, ALERT_SUPPRESSION_SECONDS * SubSec }

DismissHorizon == 2 * ALERT_SUPPRESSION_SECONDS * SubSec

\* the ids the UI can name: those of the stored alerts and one that is not stored
AlertIds == { store[i].id : i \in 1..Len(store) } \cup { <<"cpu_spike", 0, 0>> }

NextDismiss ==
    \/ \E d \in DismissClockSteps : AdvanceClock(d, DismissHorizon)
    \/ \E list \in CooldownLists : TickStart(list, MaxDismissTicks)
    \/ \E persist1 \in BOOLEAN : TickMetric(persist1, TRUE, TRUE)
    \/ TickFinish(QuietNetwork, QuietRegistry, TRUE)
    \/ \E alert_id \in AlertIds, persist_ok \in BOOLEAN : acknowledge_alert(alert_id, persist_ok)
    \/ \E alert_id \in AlertIds, persist_ok \in BOOLEAN : delete_alert(alert_id, persist_ok)
    \/ \E persist_ok \in BOOLEAN : delete_all_active_alerts(persist_ok)

SpecDismiss == Init /\ [][NextDismiss]_vars

(***************************************************************************)
(* The same program with the default policy, a process that comes and      *)
(* goes, and a clock that can land on either side of the end of the        *)
(* correlation window.                                                      *)
(***************************************************************************)
MaxCorrelationTicks == 3

CorrelationClockSteps ==
    { CORRELATION_WINDOW_SECS * SubSec, CORRELATION_WINDOW_SECS * SubSec + 1,
      (CORRELATION_WINDOW_SECS + 1) * SubSec }

CorrelationHorizon == 2 * (CORRELATION_WINDOW_SECS + 1) * SubSec

CorrelationLists == CooldownLists \cup { <<>> }

NextCorrelation ==
    \/ \E d \in CorrelationClockSteps : AdvanceClock(d, CorrelationHorizon)
    \/ \E list \in CorrelationLists : TickStart(list, MaxCorrelationTicks)
    \/ TickMetric(TRUE, TRUE, TRUE)
    \/ TickFinish(QuietNetwork, QuietRegistry, TRUE)

SpecCorrelation == Init /\ [][NextCorrelation]_vars

(***************************************************************************)
(* The same program with the default policy, one process, and the trust    *)
(* override command called on the rows of the process list, with or        *)
(* without the path; the known-entity store may fail to be written.        *)
(***************************************************************************)
MaxTrustTicks == 2

MaxOverrideCalls == 2

TrustImages == { CooldownImage }

TrustLists == { << Stub(1, image) >> : image \in TrustImages }

OverrideTargets ==
    { [ path |-> image.exe_path, name |-> image.name ] : image \in TrustImages }
    \cup { [ path |-> None, name |-> image.name ] : image \in TrustImages }

OverrideLabels == { None, Some(<<"o", "k", " ">>) }

NextTrust ==
    \/ \E d \in ClockSteps : AdvanceClock(d, MaxTrustTicks * SLEEP_SECS * SubSec)
    \/ \E target \in OverrideTargets, trust_level \in { "Trusted", "Unknown" },
          label \in OverrideLabels, persist_ok \in BOOLEAN :
           set_process_trust_override(target.path, target.name, trust_level, label,
                                      persist_ok, MaxOverrideCalls)
    \/ \E list \in TrustLists : TickStart(list, MaxTrustTicks)
    \/ TickMetric(TRUE, TRUE, TRUE)
    \/ TickFinish(QuietNetwork, QuietRegistry, TRUE)

SpecTrust == Init /\ [][NextTrust]_vars

(***************************************************************************)
(* The same program with the default policy and two processes that come    *)
(* and go between ticks; the event store may refuse a row.                 *)
(***************************************************************************)
MaxLifecycleTicks == 3

LifecyclePids == { 1, 2 }

LifecycleLists ==
    { <<>>, << Stub(1, CooldownImage) >>, << Stub(2, CooldownImage) >>,
      << Stub(1, CooldownImage), Stub(2, CooldownImage) >> }

NextLifecycle ==
    \/ \E d \in ClockSteps : AdvanceClock(d, MaxLifecycleTicks * SLEEP_SECS * SubSec)
    \/ \E list \in LifecycleLists : TickStart(list, MaxLifecycleTicks)
    \/ TickMetric(TRUE, TRUE, TRUE)
    \/ \E event_ok \in BOOLEAN : TickFinish(QuietNetwork, QuietRegistry, event_ok)

SpecLifecycle == Init /\ [][NextLifecycle]_vars

(***************************************************************************)
(* The same program with the default policy and one process, and network   *)
(* and registry samples that can fail or change from one sample to the     *)
(* next.                                                                    *)
(***************************************************************************)
MaxSensorTicks == 6

Established ==
    [ protocol |-> <<"T","C","P">>, local_address |-> <<"h",":","1">>,
      remote_address |-> <<"r",":","8">>,
      state |-> Some(<<"E","S","T","A","B","L","I","S","H","E","D">>), pid |-> 1 ]

Listening ==
    [ protocol |-> <<"T","C","P">>, local_address |-> <<"h",":","2">>,
      remote_address |-> <<"r",":","9">>,
      state |-> Some(<<"L","I","S","T","E","N","I","N","G">>), pid |-> 1 ]

Datagram ==
    [ protocol |-> <<"U","D","P">>, local_address |-> <<"h",":","3">>,
      remote_address |-> <<"*",":","*">>, state |-> None, pid |-> 1 ]

NetworkSamples ==
    { [ ok |-> FALSE, error |-> "netstat command failed" ] }
    \cup { [ ok |-> TRUE, connections |-> c ] :
             c \in { <<>>, << Established >>, << Listening, Established >>,
                      << Datagram >> } }

RegistrySamples ==
    { [ ok |-> FALSE, error |-> "registry unavailable" ] }
    \cup { [ ok |-> TRUE, snapshot |-> m ] :
             m \in { EmptyMap, Put(EmptyMap, "HKCU\\Run\\a", "x"),
                      Put(EmptyMap, "HKCU\\Run\\a", "y") } }

NextSensors ==
    \/ \E d \in ClockSteps : AdvanceClock(d, MaxSensorTicks * SLEEP_SECS * SubSec)
    \/ \E list \in CooldownLists : TickStart(list, MaxSensorTicks)
    \/ TickMetric(TRUE, TRUE, TRUE)
    \/ \E network \in NetworkSamples, registry \in RegistrySamples :
           TickFinish(network, registry, TRUE)

SpecSensors == Init /\ [][NextSensors]_vars

(***************************************************************************)
(* The pure functions of the detection module applied to every input of a  *)
(* bounded domain.                                                          *)
(***************************************************************************)
MaxScore == 100

MaxCorrelationCount == 3

RiskLevels == { "Legitimate", "Unknown", "Suspicious" }

TrustLevels == { "WindowsNative", "Trusted", "Unknown" }

DetectionProfiles == { "Conservative", "Balanced", "Aggressive" }

P_local_temp_a == <<"C",":">> \o Bsl \o <<"U","s","e","r","s">> \o Bsl \o <<"x">> \o Bsl
                  \o <<"A","p","p","D","a","t","a">> \o Bsl \o <<"L","o","c","a","l">>
                  \o Bsl \o <<"T","e","m","p">> \o Bsl \o <<"a">> \o DotExe

DetectionImages ==
    Images \cup { [ name |-> S_powershell, exe_path |-> Some(P_local_temp_a) ] }

ParentNames == { None, Some(<<"W","I","N","W","O","R","D">> \o DotExe) }

NextDetection ==
    \/ \E image \in DetectionImages, parent_name \in ParentNames,
          is_signed \in { None, Some(TRUE), Some(FALSE) }, cpu_spike \in BOOLEAN,
          profile \in DetectionProfiles :
           AssessAndBuild(image, parent_name, is_signed, cpu_spike, profile)
    \/ \E score \in 0..MaxScore, base_level \in RiskLevels, trust_level \in TrustLevels,
          correlation_count \in 0..MaxCorrelationCount, internal_process \in BOOLEAN :
           Classify(score, base_level, trust_level, correlation_count, internal_process)

SpecDetection == Init /\ [][NextDetection]_vars

(***************************************************************************)
(* The CPU-spike detector fed directly: first with every sequence of a few *)
(* sample values around the threshold, up to the length of the sustain     *)
(* window, then with one long numbered sequence per pid that overflows the *)
(* history.                                                                 *)
(***************************************************************************)
MaxSpikeCalls == 10

SpikeSamples == { 89, 92, 95, 100 }

NextCpu ==
    \E pid \in Pids, sample \in SpikeSamples : CpuSample(pid, sample, MaxSpikeCalls)

SpecCpu == Init /\ [][NextCpu]_vars

MaxHistoryCalls == 122

\* the n-th sample of a pid is n
NextSample(pid) == (IF pid \in DOMAIN cpu_log THEN Len(cpu_log[pid]) ELSE 0) + 1

MaxHistoryPid == 2

NextCpuHistory ==
    \E pid \in 1..MaxHistoryPid : CpuSample(pid, NextSample(pid), MaxHistoryCalls)

SpecCpuHistory == Init /\ [][NextCpuHistory]_vars

\* a short window, so that a prior history of five samples is reached
MaxWindowCalls == 7

ShortWindowConfig ==
    [ threshold_pct |-> 90, min_consecutive_samples |-> 2, deviation_ratio |-> 18 ]

SpikeConfigs == { default_cpu_spike_config, ShortWindowConfig }

WindowSamples == { 20, 50, 90, 96 }

NextCpuWindow ==
    \/ \E config \in SpikeConfigs : set_cpu_spike_config(config)
    \/ \E pid \in Pids, sample \in WindowSamples : CpuSample(pid, sample, MaxWindowCalls)

SpecCpuWindow == Init /\ [][NextCpuWindow]_vars

(***************************************************************************)
(* The same program with a process list that holds either a script host    *)
(* run from the agent's own directory (an internal process) or the same    *)
(* script host elsewhere.                                                   *)
(***************************************************************************)
P_nyx_dir_cmd == <<"C",":">> \o Bsl \o <<"A","p","p","D","a","t","a">> \o Bsl
                 \o <<"R","o","a","m","i","n","g">> \o Bsl \o <<"T","e","m","p">>
                 \o Bsl \o S_nyx_monitor \o Bsl \o S_cmd

InternalImage == [ name |-> S_cmd, exe_path |-> Some(P_nyx_dir_cmd) ]

InternalLists ==
    { ListOf([ pid \in Pids |-> Some(image) ], 1) : image \in { InternalImage, CooldownImage } }

NextInternal ==
    \/ \E d \in ClockSteps : AdvanceClock(d, MaxSeconds * SubSec)
    \/ \E policy \in CooldownPolicies : set_response_policy(policy)
    \/ \E pid \in Pids, action_type \in ActionTypes, exec_ok \in BOOLEAN :
           ManualResponse(pid, action_type, exec_ok, TRUE, TRUE)
    \/ \E list \in InternalLists : TickStart(list, MaxTicks)
    \/ TickMetric(TRUE, TRUE, TRUE)
    \/ \E exec_ok \in BOOLEAN : TickRespond(exec_ok, TRUE, TRUE, TRUE)
    \/ TickFinish(QuietNetwork, QuietRegistry, TRUE)

SpecInternal == Init /\ [][NextInternal]_vars

(***************************************************************************)
(* The event log on its own: inserts and queries                           *)
(***************************************************************************)
\* the row cap of the store in this specification
EventCap == 2

\* the event ids in use
MaxEventId == 3

\* the largest timestamp_utc in use
MaxEventTime == 1

\* the largest limit passed to list_events
MaxLimit == 2

\* an alert event of the detection sensor and an event of the registry sensor
AlertTemplate ==
    [ event_type |-> << "a", "l", "e", "r", "t", "_", "g", "e", "n", "e", "r", "a", "t", "e", "d" >>,
      sensor |-> << "d", "e", "t", "e", "c", "t", "i", "o", "n" >>,
      message |-> << "A", "l", "e", "r", "t", " ", "g", "e", "n", "e", "r", "a", "t", "e", "d", ":", " ", "C", "P", "U", " ", "s", "p", "i", "k", "e" >>,
      process |-> Some([ pid |-> 1, image_name |-> << "c", "m", "d", ".", "e", "x", "e" >>, image_path |-> None ]) ]

RegistryTemplate ==
    [ event_type |-> << "r", "e", "g", "i", "s", "t", "r", "y", "_", "v", "a", "l", "u", "e", "_", "a", "d", "d", "e", "d" >>,
      sensor |-> << "r", "e", "g", "i", "s", "t", "r", "y" >>,
      message |-> << "R", "e", "g", "i", "s", "t", "r", "y", " ", "v", "a", "l", "u", "e", " ", "a", "d", "d", "e", "d", ":", " ", "R", "u", "n" >>,
      process |-> None ]

EventSamples ==
    { [ event_id |-> id, timestamp_utc |-> at, event_type |-> t.event_type,
        sensor |-> t.sensor, message |-> t.message, process |-> t.process ] :
        id \in 1..MaxEventId, at \in 0..MaxEventTime,
        t \in { AlertTemplate, RegistryTemplate } }

EventTypeFilters ==
    { None, Some(<< " ", "A", "l", "e", "r", "t", "_", "G", "e", "n", "e", "r", "a", "t", "e", "d", " " >>) }

SensorFilters ==
    { None, Some(<< "R", "e", "g", "i", "s", "t", "r", "y" >>) }

SearchFilters ==
    { Some(<< " ", " " >>), Some(<< " ", "C", "M", "D" >>), Some(<< "a", "d", "d", "e", "d" >>) }

NextEvents ==
    \/ \E event \in EventSamples : InsertEvent(event, EventCap)
    \/ \E limit \in 0..MaxLimit, event_type \in EventTypeFilters,
          sensor \in SensorFilters, search \in SearchFilters :
          ListEvents(limit, event_type, sensor, search)

SpecEvents == Init /\ [][NextEvents]_vars

(***************************************************************************)
(* build_process_tree called on its own, on every list of up to            *)
(* MaxTreeLen processes with distinct pids whose ppid is missing, points    *)
(* into the list (to the process itself or to another one) or points out    *)
(* of it.                                                                   *)
(***************************************************************************)
MaxTreeLen == 3

TreeNames == { S_cmd, S_lsass }

TreeStubs ==
    { [ Stub(pid, [ name |-> name, exe_path |-> None ]) EXCEPT !.ppid = ppid ] :
        pid \in 1..MaxTreeLen,
        ppid \in { None } \cup { Some(p) : p \in 1..(MaxTreeLen + 1) },
        name \in TreeNames }

TreeLists ==
    UNION { { list \in [1..n -> TreeStubs] :
                \A i, j \in 1..n : list[i].pid = list[j].pid => i = j } :
            n \in 1..MaxTreeLen }

NextTree == \E list \in TreeLists : BuildTree(list)

SpecTree == Init /\ [][NextTree]_vars

(***************************************************************************)
(* Properties of the response engine, stated on the outcome of the latest   *)
(* run_response_action call (last_response) and of the latest trigger       *)
(* decision (last_auto).                                                    *)
(***************************************************************************)
Called == last_response.kind # "none"

Found == Called /\ IsSome(last_response.metric)

\* the error returns that precede the actuator
Rejections == { "not_found", "audit", "safe_mode", "terminate_blocked", "cooldown" }

\* the snapshot name of the target is on the critical list, ignoring case
OnCriticalList ==
    Found /\ to_lowercase(Unwrap(last_response.metric).name) \in CRITICAL_PROCESS_NAMES

\* C1: the TerminateProcess actuator is never dispatched against a process
\* whose name is on the critical list, whatever the policy.
C1_TerminateNeverHitsCritical ==
    (Called /\ last_response.dispatched /\ last_response.action_type = "TerminateProcess")
        => ~OnCriticalList

\* C2: while policy.safe_mode is true, run_response_action on a pid whose
\* snapshot name matches the critical list case-insensitively returns an error,
\* for every action type and for automatic and manual calls, and dispatches
\* no actuator.
C2_SafeModeRejectsCritical ==
    (OnCriticalList /\ last_response.policy.safe_mode)
        => /\ last_response.kind \in { "audit", "safe_mode" }
           /\ ~last_response.dispatched
           /\ last_response.record = None

\* a call on a process named in upper case was rejected by safe mode
C2_Witness ==
    /\ last_response.kind = "safe_mode"
    /\ Unwrap(last_response.metric).name # to_lowercase(Unwrap(last_response.metric).name)

\* C3: while policy.mode is Audit an automatic run_response_action is rejected
\* without dispatch, a manual one is not rejected by the mode check, and the
\* trigger of the tick loop requests no action.
C3_AuditRejectsAutomaticOnly ==
    /\ (Called /\ last_response.policy.mode = "Audit")
          => /\ last_response.automatic
                  => /\ last_response.kind \in { "not_found", "audit" }
                     /\ ~last_response.dispatched
             /\ ~last_response.automatic => last_response.kind # "audit"
    /\ (IsSome(last_auto.metric) /\ last_auto.policy.mode = "Audit")
          => last_auto.requested = None

\* an automatic call found its target and met a policy in Audit mode
C3_Witness ==
    /\ last_response.kind = "audit"
    /\ last_response.automatic
    /\ IsSome(last_response.metric)

\* C4: while policy.allow_terminate is false every TerminateProcess call,
\* manual or automatic, returns an error and dispatches nothing.
C4_TerminateNeedsAllow ==
    (Called /\ last_response.action_type = "TerminateProcess"
            /\ ~last_response.policy.allow_terminate)
        => /\ last_response.kind \in Rejections
           /\ ~last_response.dispatched

\* a TerminateProcess call passed the earlier guards and was rejected by the
\* allow_terminate check
C4_Witness ==
    /\ last_response.kind = "terminate_blocked"
    /\ last_response.action_type = "TerminateProcess"

\* C6: a call rejected by a precondition dispatches nothing, adds no record,
\* leaves the cooldown map alone and publishes no event.
C6_RejectionHasNoEffect ==
    [][ (last_response'.kind \in Rejections)
            => /\ ~last_response'.dispatched
               /\ response_store' = response_store
               /\ action_cooldowns' = action_cooldowns
               /\ event_store' = event_store ]_vars

\* an automatic call was rejected while a record, a cooldown entry and an
\* event of an earlier call exist
C6_Witness ==
    /\ last_response.kind \in Rejections
    /\ last_response.automatic
    /\ response_store # <<>>
    /\ event_store # <<>>

\* the response_action event of the latest call is in the event store
EventStored ==
    \E i \in 1..Len(event_store) : event_store[i] = Unwrap(last_response.event)

\* the record of the latest call is the newest of the response store
RecordStored ==
    /\ response_store # <<>>
    /\ response_store[Len(response_store)] = Unwrap(last_response.record)

\* the record and the event agree with the actuator's result
RecordMatchesActuator ==
    LET record == Unwrap(last_response.record)
        execution == Unwrap(last_response.exec)
    IN  /\ record.success = execution.ok
        /\ record.details = execution.msg

\* C7 as written: whenever the preconditions pass, a record with the actuator's
\* result is returned and stored and an event of severity critical (failure) or
\* warn (success) is published.
C7_AsWritten ==
    (Called /\ last_response.kind \notin Rejections)
        => /\ last_response.kind = "ok"
           /\ RecordMatchesActuator
           /\ RecordStored
           /\ last_response.published
           /\ EventStored
           /\ Unwrap(last_response.event).severity
                = (IF Unwrap(last_response.exec).ok THEN "Warn" ELSE "Critical")

\* C7 amended: when the preconditions pass the record carries the actuator's
\* result and is appended to the in-memory store; it is returned, and the event
\* handed to the event store has severity critical on failure and warn on
\* success, when the response store could be written; the event is in the event
\* store when that store accepted it.  When the response store could not be
\* written the call returns the error and hands over no event.
C7_RecordAndEventWhenStored ==
    (Called /\ last_response.kind \notin Rejections)
        => /\ last_response.dispatched
           /\ RecordMatchesActuator
           /\ RecordStored
           /\ last_response.kind = "ok"
                 => /\ IsSome(last_response.event)
                    /\ Unwrap(last_response.event).event_type = "response_action"
                    /\ Unwrap(last_response.event).severity
                         = (IF Unwrap(last_response.exec).ok THEN "Warn" ELSE "Critical")
                    /\ last_response.published => EventStored
           /\ last_response.kind # "ok"
                 => /\ last_response.kind = "persist_failed"
                    /\ last_response.event = None
                    /\ ~last_response.published

\* the actuator failed, the record was stored and the critical event published
C7_Witness ==
    /\ last_response.kind = "ok"
    /\ ~Unwrap(last_response.exec).ok
    /\ last_response.published
    /\ Unwrap(last_response.event).severity = "Critical"

\* the action the ladder picks for a metric under a policy
Ladder(metric, policy) ==
    IF metric.risk_score >= 95 /\ policy.allow_terminate THEN "TerminateProcess"
    ELSE IF IsSome(metric.exe_path) THEN "BlockProcessNetwork"
    ELSE "SuspendProcess"

\* C8: the trigger requests an action only in Constrain mode with
\* risk_score >= auto_constrain_threshold, and then the one the ladder picks.
C8_TriggerAndLadder ==
    (IsSome(last_auto.metric) /\ IsSome(last_auto.requested))
        => LET metric == Unwrap(last_auto.metric) IN
           /\ last_auto.policy.mode = "Constrain"
           /\ metric.risk_score >= last_auto.policy.auto_constrain_threshold
           /\ Unwrap(last_auto.requested) = Ladder(metric, last_auto.policy)

\* a process with risk_score >= 95 met a policy that forbids terminate and the
\* ladder fell through to BlockProcessNetwork
C8_Witness ==
    /\ IsSome(last_auto.metric)
    /\ Unwrap(last_auto.metric).risk_score >= 95
    /\ ~last_auto.policy.allow_terminate
    /\ last_auto.requested = Some("BlockProcessNetwork")

\* the guards that precede the cooldown guard
EarlierGuards == { "not_found", "audit", "safe_mode", "terminate_blocked" }

\* C5 as written: an automatic run of the action on the pid less than
\* cooldown_seconds after the latest automatic dispatch of that action on that
\* pid is rejected by the cooldown and dispatches nothing; one at least
\* cooldown_seconds after it is not rejected by the cooldown; without such a
\* dispatch (other pids, other action types) the cooldown never rejects.
C5_AsWritten ==
    (Called /\ last_response.automatic /\ last_response.kind \notin EarlierGuards)
        => LET window == last_response.policy.cooldown_seconds * SubSec
               prior == last_response.prior
           IN  /\ (IsSome(prior) /\ last_response.at - Unwrap(prior) < window)
                     => /\ last_response.kind = "cooldown"
                        /\ ~last_response.dispatched
               /\ (IsSome(prior) /\ last_response.at - Unwrap(prior) >= window)
                     => last_response.kind # "cooldown"
               /\ prior = None => last_response.kind # "cooldown"

\* the process under the pid as scored in the tick of the latest trigger
Scored == Unwrap(last_auto.metric)

\* C9: in Constrain mode the action the ladder picked for a non-critical
\* process whose risk_score reached the threshold is dispatched in that tick,
\* unless the terminate or the cooldown guard rejects it.
C9_TriggeredMeansDispatched ==
    (/\ Called
     /\ last_response.automatic
     /\ IsSome(last_auto.metric)
     /\ last_auto.policy.mode = "Constrain"
     /\ last_response.policy.mode = "Constrain"
     /\ Scored.risk_score >= last_auto.policy.auto_constrain_threshold
     /\ ~is_critical_process(Scored.name, Scored.exe_path)
     /\ last_response.kind \notin { "terminate_blocked", "cooldown" })
        => /\ last_response.dispatched
           /\ last_response.action_type = Ladder(Scored, last_auto.policy)

\* C10: add_alert_if_new rejects an alert when a stored alert with the same
\* (pid, alert_type, title) is at most 120 s old, and stores it when every such
\* stored alert is older than 120 s.
C10_DedupWindow ==
    \A k \in 1..Len(last_offers) :
        LET offer == last_offers[k]
            window == ALERT_DEDUP_SECONDS * SubSec
        IN  /\ (\E age \in offer.ages : Abs(age) <= window)
                  => offer.result \in { "duplicate", "suppressed" }
            /\ (offer.ages # {} /\ \A age \in offer.ages : age > window)
                  => offer.result \in { "added", "persist_failed" }

(***************************************************************************)
(* Properties of the alert commands, stated on the add_alert_if_new calls   *)
(* of the latest step (last_offers) and on the deletions so far             *)
(* (dismiss_log).                                                           *)
(***************************************************************************)
\* a stored alert with the same (pid, alert_type, title) is inside the
\* de-duplication window of the offer
HasRecentTwin(offer) ==
    \E age \in offer.ages : Abs(num_seconds(age)) <= ALERT_DEDUP_SECONDS

\* C11: after a delete removed an active alert, an alert with the same
\* signature is rejected and not stored while fewer than 300 s have passed since
\* the deletion, and is accepted once 300 s have passed.
C11_SuppressedFor300s ==
    \A k \in 1..Len(last_offers) :
        LET offer == last_offers[k]
            signature == alert_signature(offer.alert)
            window == ALERT_SUPPRESSION_SECONDS * SubSec
        IN  signature \in DOMAIN dismiss_log
               => /\ offer.at - dismiss_log[signature] < window
                     => offer.result \in { "suppressed", "duplicate" }
                  /\ (offer.at - dismiss_log[signature] >= window /\ ~HasRecentTwin(offer))
                     => offer.result \in { "added", "persist_failed" }

\* C12: the status of a stored alert only moves forward: an acknowledged alert
\* stays acknowledged until it is deleted, every stored alert is active or
\* acknowledged, and an alert that enters the store is a new active one.
C12_StatusOnlyMovesForward ==
    [][ /\ \A i \in 1..Len(store) : \A j \in 1..Len(store') :
              (store'[j].id = store[i].id /\ store[i].status = "Acknowledged")
                  => store'[j].status = "Acknowledged"
        /\ \A j \in 1..Len(store') :
              /\ store'[j].status \in { "Active", "Acknowledged" }
              /\ (\A i \in 1..Len(store) : store[i].id # store'[j].id)
                    => /\ store'[j].status = "Active"
                       /\ store'[j].timestamp = Some(now) ]_vars

\* acknowledge_alert was called again on an alert that is already acknowledged
\* and left it acknowledged
C12_Witness ==
    /\ last_call.fn = "acknowledge_alert"
    /\ ~last_call.value
    /\ ~last_call.err
    /\ \E i \in 1..Len(store) :
          store[i].id = last_call.alert_id /\ store[i].status = "Acknowledged"

(***************************************************************************)
(* Properties of the detection functions, stated on the latest direct call  *)
(* (last_call).                                                             *)
(***************************************************************************)
Built == last_call.fn = "build_alert"

\* C13: when the base level is Suspicious the base alert is a
\* suspicious_process alert of severity critical, with or without a cpu spike;
\* a cpu_spike alert (severity warn) is built only when cpu_spike is true and
\* the base level is not Suspicious.
C13_SuspiciousOutranksSpike ==
    Built =>
        /\ last_call.assessment.level = "Suspicious"
              => /\ IsSome(last_call.out)
                 /\ Unwrap(last_call.out).alert_type = "suspicious_process"
                 /\ Unwrap(last_call.out).severity = "Critical"
        /\ (IsSome(last_call.out) /\ Unwrap(last_call.out).alert_type = "cpu_spike")
              => /\ last_call.cpu_spike
                 /\ last_call.assessment.level # "Suspicious"
                 /\ Unwrap(last_call.out).severity = "Warn"

Classified == last_call.fn = "classify_threat_verdict"

\* the decision list of the verdict classifier, first matching row wins
VerdictRows(score, base_level, trust_level, correlation_count, internal) ==
    << [ when |-> internal, verdict |-> "Benign" ],
       [ when |-> base_level = "Legitimate" /\ score >= 55, verdict |-> "LowRisk" ],
       [ when |-> base_level = "Legitimate", verdict |-> "Benign" ],
       [ when |-> base_level = "Suspicious" /\ trust_level = "Unknown" /\ score >= 95
                  /\ correlation_count >= 2, verdict |-> "ConfirmedMalicious" ],
       [ when |-> base_level = "Suspicious" /\ trust_level = "Unknown" /\ score >= 86
                  /\ correlation_count >= 1, verdict |-> "LikelyMalicious" ],
       [ when |-> base_level = "Suspicious" /\ score >= 70, verdict |-> "Suspicious" ],
       [ when |-> score >= 35, verdict |-> "LowRisk" ],
       [ when |-> TRUE, verdict |-> "Benign" ] >>

FirstRow(rows) ==
    rows[CHOOSE i \in 1..Len(rows) : rows[i].when /\ \A j \in 1..(i - 1) : ~rows[j].when]

\* C15: classify_threat_verdict returns, for every input, the verdict of the
\* first matching row of the decision list; internal gives Benign whatever the
\* other inputs are.
C15_VerdictDecisionList ==
    Classified =>
        /\ last_call.out = FirstRow(VerdictRows(last_call.score, last_call.base_level,
                                                last_call.trust_level,
                                                last_call.correlation_count,
                                                last_call.internal_process)).verdict
        /\ last_call.internal_process => last_call.out = "Benign"

\* an internal process with the inputs of a confirmed threat is Benign
C15_Witness ==
    /\ Classified
    /\ last_call.internal_process
    /\ last_call.score >= 95
    /\ last_call.base_level = "Suspicious"
    /\ last_call.trust_level = "Unknown"
    /\ last_call.correlation_count >= 2
    /\ last_call.out = "Benign"

\* the call of scenario S3: score 90, Suspicious, Unknown trust, two
\* correlation signals, not internal
ScenarioS3 ==
    /\ Classified
    /\ last_call.score = 90
    /\ last_call.base_level = "Suspicious"
    /\ last_call.trust_level = "Unknown"
    /\ last_call.correlation_count = 2
    /\ ~last_call.internal_process

\* C16 as written: for score 90, Suspicious, Unknown trust, correlation_count 2
\* and internal false the classifier returns ConfirmedMalicious.
C16_AsWritten == ScenarioS3 => last_call.out = "ConfirmedMalicious"

\* C16 amended: for those inputs the classifier returns LikelyMalicious.
C16_LikelyMaliciousAt90 == ScenarioS3 => last_call.out = "LikelyMalicious"

\* the classifier was called with the inputs of scenario S3 and answered
C16_Witness == ScenarioS3 /\ last_call.out = "LikelyMalicious"

(***************************************************************************)
(* Properties of the CPU-spike detector, stated on the latest direct call   *)
(* and on the samples passed so far (cpu_log).                              *)
(***************************************************************************)
Sampled == last_call.fn = "update_cpu_and_check_spike"

\* the samples the pid of the latest call has received, oldest first
Received == cpu_log[last_call.pid]

\* every sample received so far is at or above the threshold
AllAtOrAbove == \A i \in 1..Len(Received) : Received[i] >= cpu_spike_config.threshold_pct

\* C14 as written: with threshold 90, min_consecutive_samples 10 and ratio 1.8,
\* a pid without prior history gets false on each of its first nine samples and
\* true on the tenth consecutive sample at or above the threshold.
C14_AsWritten ==
    Sampled =>
        /\ Len(Received) < cpu_spike_config.min_consecutive_samples => ~last_call.out
        /\ (Len(Received) = cpu_spike_config.min_consecutive_samples /\ AllAtOrAbove)
              => last_call.out

\* C14 amended: false on each of the first nine samples; on the tenth, true
\* exactly when all ten are at or above the threshold and their average is
\* above threshold + 5.
C14_TenthNeedsMargin ==
    Sampled =>
        /\ Len(Received) < cpu_spike_config.min_consecutive_samples => ~last_call.out
        /\ Len(Received) = cpu_spike_config.min_consecutive_samples
              => (last_call.out <=>
                     /\ AllAtOrAbove
                     /\ SumSeq(Received) > (cpu_spike_config.threshold_pct + 5) * Len(Received))

\* the tenth of ten samples at or above the threshold was reported as a spike
C14_Witness ==
    /\ Sampled
    /\ Len(Received) = cpu_spike_config.min_consecutive_samples
    /\ AllAtOrAbove
    /\ last_call.out

\* C20: after N calls for a pid its history holds the min(N, 120) most recent
\* samples in arrival order.
C20_HistoryKeepsNewest120 ==
    \A pid \in DOMAIN cpu_log :
        LET N == Len(cpu_log[pid]) IN
        /\ pid \in DOMAIN cpu_history
        /\ Len(cpu_history[pid]) = Min(N, 120)
        /\ cpu_history[pid] = SubSeq(cpu_log[pid], N - Min(N, 120) + 1, N)

\* a pid has received more than 120 samples
C20_Witness ==
    \E pid \in DOMAIN cpu_log : Len(cpu_log[pid]) > 120 /\ Len(cpu_history[pid]) = 120

(***************************************************************************)
(* Properties of the event log                                              *)
(***************************************************************************)
\* C18: every pushed event has an event_id of its own, so no insert replaces a
\* row of the event log: each stored row is still stored after every step.
C18_NoRowReplaced ==
    [][ \A i \in 1..Len(event_store) :
            \E j \in 1..Len(event_store') : event_store'[j] = event_store[i] ]_vars

\* the rows of a table, as a set
RowsOf(rows) == { rows[i] : i \in 1..Len(rows) }

\* the rows on offer to the prune of an insert: the new row and every old row
\* with another event_id
OfferedRows(before, event) ==
    { r \in RowsOf(before) : r.event_id # event.event_id } \cup { event }

\* C17: after any sequence of insert_event calls the event log holds at most
\* the cap of the store, and an insert that raises the total above the cap
\* deletes exactly the excess rows, each with a timestamp_utc no larger than
\* that of any row left.
C17_CapAndOldestPruned ==
    /\ [](Len(event_store) <= EventCap)
    /\ [][ last_call'.fn = "insert_event" =>
             LET offered == OfferedRows(event_store, last_call'.event)
                 left    == RowsOf(event_store')
             IN /\ left \subseteq offered
                /\ Cardinality(left) = Len(event_store')
                /\ Cardinality(left) = Min(Cardinality(offered), EventCap)
                /\ \A gone \in offered \ left : \A r \in left :
                      gone.timestamp_utc <= r.timestamp_utc ]_vars

\* an insert of a new event_id into a full table pruned an older row and kept
\* the new one
C17_Witness ==
    /\ last_call.fn = "insert_event"
    /\ Len(last_call.before) = EventCap
    /\ \A r \in RowsOf(last_call.before) : r.event_id # last_call.event.event_id
    /\ Len(event_store) = EventCap
    /\ last_call.event \in RowsOf(event_store)
    /\ \E gone \in RowsOf(last_call.before) :
          /\ gone \notin RowsOf(event_store)
          /\ gone.timestamp_utc < last_call.event.timestamp_utc

\* a filter that was supplied and is not blank
Supplied(filter) == IsSome(filter) /\ trim(Unwrap(filter)) # <<>>

\* the text of a supplied filter, compared without regard to case
FilterText(filter) == to_lowercase(trim(Unwrap(filter)))

\* the event satisfies every supplied filter of the query
SatisfiesFilters(event, event_type, sensor, search) ==
    /\ Supplied(event_type) => to_lowercase(event.event_type) = FilterText(event_type)
    /\ Supplied(sensor) => to_lowercase(event.sensor) = FilterText(sensor)
    /\ Supplied(search) =>
          \/ contains(to_lowercase(event.message), FilterText(search))
          \/ /\ IsSome(event.process)
             /\ \/ contains(to_lowercase(Unwrap(event.process).image_name),
                            FilterText(search))
                \/ /\ IsSome(Unwrap(event.process).image_path)
                   /\ contains(to_lowercase(Unwrap(Unwrap(event.process).image_path)),
                               FilterText(search))

\* the result of the latest list_events call is newest first and holds only
\* stored events that satisfy the supplied filters
ListedNewestFirstAndFiltered ==
    last_call.fn = "list_events" =>
        /\ \A i, j \in 1..Len(last_call.out) :
              i < j => last_call.out[i].timestamp_utc >= last_call.out[j].timestamp_utc
        /\ \A i \in 1..Len(last_call.out) :
              /\ last_call.out[i] \in RowsOf(event_store)
              /\ SatisfiesFilters(last_call.out[i], last_call.event_type,
                                  last_call.sensor, last_call.search)

\* C19: list_events(limit, event_type?, sensor?, search?) returns events newest
\* first by timestamp_utc, every returned event satisfies all supplied filters,
\* and the number of returned events never exceeds limit, for every limit
\* including 0.
C19_ListContract ==
    /\ ListedNewestFirstAndFiltered
    /\ last_call.fn = "list_events" => Len(last_call.out) <= last_call.limit

(***************************************************************************)
(* Properties of the published snapshot                                    *)
(***************************************************************************)
\* C21: every ProcessMetric of the published snapshot has suspicion.score in
\* 0..100: signal weights that add up to more than 100 are stored as 100.
C21_SuspicionScoreWithin100 ==
    \A i \in 1..Len(process_metrics) : process_metrics[i].suspicion.score \in 0..100

(***************************************************************************)
(* The spike verdict as a condition on the history after the push          *)
(***************************************************************************)
\* the history of the pid of the latest call, after the sample was appended
Pushed == cpu_history[last_call.pid]

\* the positions of the recent window in the history
RecentWindow ==
    (Len(Pushed) - cpu_spike_config.min_consecutive_samples + 1)..Len(Pushed)

\* the number of samples before the recent window
PriorLen == Len(Pushed) - cpu_spike_config.min_consecutive_samples

SumAt(positions) == SumSeq([ k \in 1..Cardinality(positions) |->
                               Pushed[CHOOSE i \in positions :
                                         Cardinality({ j \in positions : j < i }) = k - 1] ])

\* recent average > threshold_pct + 5, over the common denominator
RecentAboveMargin ==
    SumAt(RecentWindow)
        > (cpu_spike_config.threshold_pct + 5) * cpu_spike_config.min_consecutive_samples

\* recent average > prior average x deviation_ratio (in tenths), over the
\* common denominator
RecentAbovePrior ==
    SumAt(RecentWindow) * PriorLen * 10
        > SumAt(1..PriorLen) * cpu_spike_config.deviation_ratio
              * cpu_spike_config.min_consecutive_samples

\* C27: update_cpu_and_check_spike returns true exactly when, after the push,
\* (1) the history has at least min_consecutive_samples samples, (2) the most
\* recent min_consecutive_samples samples are all >= threshold_pct, and (3)
\* either fewer than 5 samples precede the window and the recent average is
\* above threshold_pct + 5, or at least 5 precede it and the recent average is
\* above the prior average times deviation_ratio.
C27_SpikeExactlyWhen ==
    Sampled =>
        (last_call.out <=>
            /\ Len(Pushed) >= cpu_spike_config.min_consecutive_samples
            /\ \A i \in RecentWindow : Pushed[i] >= cpu_spike_config.threshold_pct
            /\ \/ PriorLen < 5 /\ RecentAboveMargin
               \/ PriorLen >= 5 /\ RecentAbovePrior)

\* a spike reported against a prior history of at least five samples, with a
\* recent average that is not above threshold_pct + 5
C27_Witness ==
    /\ Sampled
    /\ last_call.out
    /\ PriorLen >= 5
    /\ ~RecentAboveMargin

(***************************************************************************)
(* Internal processes                                                      *)
(***************************************************************************)
\* no alert added by the latest step names an internal process of the list
\* being scored
NoAlertOnInternal ==
    \A i \in 1..Len(last_offers) :
        (last_offers[i].result = "added" /\ IsSome(last_offers[i].alert.pid)) =>
            \A k \in 1..Len(metrics) :
                metrics[k].pid = Unwrap(last_offers[i].alert.pid)
                    => ~is_internal_process(metrics[k])

\* the process a dispatched action is aimed at: the metric the loop is scoring
\* for an automatic run, the metric of the published snapshot for a manual one
DispatchTarget ==
    IF last_response.automatic THEN metrics[cursor - 1]
    ELSE Unwrap(last_response.metric)

\* no automatic response of the latest step was dispatched on an internal process
NoAutomaticDispatchOnInternal ==
    (last_response.dispatched /\ last_response.automatic)
        => ~is_internal_process(DispatchTarget)

\* C22: an internal process never causes an alert to be added and is never
\* the target of a dispatched response action, whether the action is requested
\* by the tick loop or manually through run_response_action.
C22_InternalIsExempt ==
    /\ NoAlertOnInternal
    /\ last_response.dispatched => ~is_internal_process(DispatchTarget)

(***************************************************************************)
(* The response alert of the tick loop                                      *)
(***************************************************************************)
\* the latest step ran an automatic response and got its record back
AutomaticRecordReturned ==
    /\ last_response.automatic
    /\ last_response.kind = "ok"
    /\ IsSome(last_response.record)

\* C24: every automatic response that is executed (the auto-response step got
\* a record back) has its response_action alert stored in the same tick, with
\* severity warn when the action succeeded and critical when it failed,
\* whatever the policy and its cooldown_seconds.
C24_ResponseAlertStored ==
    AutomaticRecordReturned =>
        \E k \in 1..Len(last_offers) :
            /\ last_offers[k].alert.alert_type = "response_action"
            /\ last_offers[k].alert.pid = Some(Unwrap(last_response.record).pid)
            /\ last_offers[k].alert.severity =
                  (IF Unwrap(last_response.record).success THEN "Warn" ELSE "Critical")
            /\ last_offers[k].result = "added"
            /\ \E i \in 1..Len(store) : store[i] = last_offers[k].alert

(***************************************************************************)
(* Announcement of the alerts the tick loop adds                           *)
(***************************************************************************)
\* the alerts the step appended to the alert store, whether or not the store
\* could then be written to disk
AppendedOffers(offers) ==
    { k \in 1..Len(offers) : offers[k].result \in { "added", "persist_failed" } }

\* the alert_generated rows of the event log that name the alert of an offer
AnnouncedBy(rows, offer) ==
    { e \in RowsOf(rows) :
        /\ e.event_type = "alert_generated"
        /\ e.timestamp_utc = offer.at
        /\ e.rule_hits = offer.alert.evidence
        /\ IsSome(e.process)
        /\ Some(Unwrap(e.process).pid) = offer.alert.pid }

\* C25: for every alert a step of the tick loop appends to the alert store an
\* alert_generated event is emitted in that step (one event id is drawn per
\* appended alert), and the event the log accepts carries the alert's process
\* identity and rule_hits equal to the alert's evidence; this holds as well
\* when the alert store cannot be persisted after the alert was appended.
C25_AppendedAlertIsAnnounced ==
    [][ /\ event_counter' - event_counter = Cardinality(AppendedOffers(last_offers'))
        /\ \A j \in 1..Len(event_store') :
               (event_store'[j].event_type = "alert_generated"
                   /\ event_store'[j] \notin RowsOf(event_store))
               => \E k \in AppendedOffers(last_offers') :
                      event_store'[j] \in AnnouncedBy(event_store', last_offers'[k]) ]_vars

(***************************************************************************)
(* The process_start correlation window                                    *)
(***************************************************************************)
\* the step scored a process that the previous tick had observed as well
ScoredStayingProcess ==
    /\ IsSome(last_auto.metric)
    /\ IsSome(FindMetric(previous_metrics, last_auto.pid))

\* the process_start bonus and its reason were applied by the step
StartBonusApplied ==
    /\ \E i \in 1..Len(last_auto.correlation_reasons) :
           last_auto.correlation_reasons[i] = R_START
    /\ \E i \in 1..Len(last_auto.correlation_bonuses) :
           last_auto.correlation_bonuses[i] = 4

\* the instant recorded for the pid lies within 300 s of the tick's start
WithinCorrelationWindow(corr, pid, at) ==
    /\ pid \in DOMAIN corr.recent_process_start
    /\ at - corr.recent_process_start[pid] <= CORRELATION_WINDOW_SECS * SubSec

EmittedFor(tail, event_type, pid) ==
    { k \in 1..Len(tail.events) :
        /\ tail.events[k].event_type = event_type
        /\ IsSome(tail.events[k].process)
        /\ Unwrap(tail.events[k].process).pid = pid }

\* C28: at every tick after the first exactly one process_started event of
\* severity info is emitted for each PID of the current list that the previous
\* list lacks, exactly one process_stopped event of severity info, with the
\* identity last observed, for each PID of the previous list that the current
\* one lacks, and none for a PID in both; the first tick emits no lifecycle
\* event.
C28_LifecycleEvents ==
    [][ last_tail'.ran =>
          \A pid \in LifecyclePids :
            LET here == IsSome(FindMetric(metrics, pid))
                before == IsSome(FindMetric(previous_metrics, pid))
                started == EmittedFor(last_tail', "process_started", pid)
                stopped == EmittedFor(last_tail', "process_stopped", pid)
            IN  /\ Cardinality(started) = (IF tick > 0 /\ here /\ ~before THEN 1 ELSE 0)
                /\ Cardinality(stopped) = (IF tick > 0 /\ before /\ ~here THEN 1 ELSE 0)
                /\ \A k \in started \cup stopped : last_tail'.events[k].severity = "Info"
                /\ \A k \in stopped :
                       last_tail'.events[k].process =
                           Some(process_identity(Unwrap(FindMetric(previous_metrics, pid)))) ]_vars

C28_Witness ==
    /\ last_tail.ran
    /\ EmittedFor(last_tail, "process_started", 1) # {}
    /\ EmittedFor(last_tail, "process_stopped", 2) # {}

(***************************************************************************)
(* Failing and recovering samples of the network and registry sensors      *)
(***************************************************************************)
\* the tail of the tick took a sample of the sensor and the sample failed
SampleFailed(sample) == IsSome(sample) /\ ~Unwrap(sample).ok

SampleSucceeded(sample) == IsSome(sample) /\ Unwrap(sample).ok

EmittedBySensor(tail, sensor) ==
    { k \in 1..Len(tail.events) : tail.events[k].sensor = sensor }

\* C26: when the network or registry sample of a tick fails, the health of the
\* sensor becomes degraded with last_error set, the tick emits no event of
\* that sensor, the connection set or registry snapshot kept for diffing is
\* unchanged, and the tick still publishes the process snapshot and goes on
\* to the next tick; a successful sample sets the status to ok and clears
\* last_error.
C26_FailedSample ==
    [][ last_tail'.ran =>
          /\ SampleFailed(last_tail'.network) =>
                /\ sensor_health'["network"].status = "degraded"
                /\ IsSome(sensor_health'["network"].last_error)
                /\ EmittedBySensor(last_tail', "network") = {}
                /\ previous_connections' = previous_connections
          /\ SampleFailed(last_tail'.registry) =>
                /\ sensor_health'["registry"].status = "degraded"
                /\ IsSome(sensor_health'["registry"].last_error)
                /\ EmittedBySensor(last_tail', "registry") = {}
                /\ previous_registry_values' = previous_registry_values
          /\ SampleSucceeded(last_tail'.network) =>
                sensor_health'["network"] = [ status |-> "ok", last_error |-> None ]
          /\ SampleSucceeded(last_tail'.registry) =>
                sensor_health'["registry"] = [ status |-> "ok", last_error |-> None ]
          /\ process_metrics' = metrics
          /\ tick' = tick + 1
          /\ tick_pc' = "start" ]_vars

\* a network sample failed at a tick that had an earlier sample to diff with
C26_Witness ==
    /\ last_tail.ran
    /\ SampleFailed(last_tail.network)
    /\ previous_connections # {}
    /\ sensor_health["network"].status = "degraded"
    /\ Len(process_metrics) > 0

(***************************************************************************)
(* connection_opened events                                                *)
(***************************************************************************)
\* a listening TCP socket
ListeningTcp(connection) ==
    /\ to_lowercase(connection.protocol) = <<"t","c","p">>
    /\ connection.state = Some(<<"L","I","S","T","E","N","I","N","G">>)

\* an empty or wildcard remote address
WildcardRemote(connection) ==
    connection.remote_address \in { <<>>, <<"*",":","*">> }

\* the connections of a sample
SampleConnections(sample) ==
    { Unwrap(sample).connections[i] : i \in 1..Len(Unwrap(sample).connections) }

\* the connection_opened events of the tail of a tick
Opened(tail) ==
    { k \in 1..Len(tail.events) : tail.events[k].event_type = "connection_opened" }

\* C30: on a successful network sample a connection_opened event is emitted,
\* and network_activity marked for its PID, only for connections of the sample
\* whose key was not in the key set of the previous successful sample and that
\* are neither listening TCP sockets nor have an empty or wildcard remote
\* address; a connection present in two consecutive successful samples gets
\* no second event, and the previous key set becomes the full key set of the
\* sample, filtered-out connections included.
C30_ConnectionOpened ==
    [][ (last_tail'.ran /\ SampleSucceeded(last_tail'.network)) =>
          /\ \A k \in Opened(last_tail') :
                \E c \in SampleConnections(last_tail'.network) :
                    /\ last_tail'.events[k].network = Some(c)
                    /\ connection_key(c) \notin previous_connections
                    /\ ~ListeningTcp(c)
                    /\ ~WildcardRemote(c)
          /\ \A pid \in DOMAIN correlation'.recent_network_activity :
                (\/ pid \notin DOMAIN correlation.recent_network_activity
                 \/ correlation'.recent_network_activity[pid]
                        # correlation.recent_network_activity[pid])
                => \E k \in Opened(last_tail') :
                       Unwrap(last_tail'.events[k].network).pid = pid
          /\ previous_connections' =
                { connection_key(c) : c \in SampleConnections(last_tail'.network) } ]_vars

\* a sample with a known connection, a listening socket that is new and no
\* event
C30_Witness ==
    /\ last_tail.ran
    /\ SampleSucceeded(last_tail.network)
    /\ tick > 1
    /\ Opened(last_tail) = {}
    /\ Cardinality(previous_connections) = 2

(***************************************************************************)
(* Trust overrides                                                         *)
(***************************************************************************)
\* the normalized path and name of a metric
MetricKeys(metric) ==
    LET keys == process_match_keys(metric.exe_path, metric.name)
    IN  { keys[i] : i \in 1..Len(keys) }

\* the metrics of the stored snapshot that a standing override names
NamedBy(override) ==
    { i \in 1..Len(process_metrics) :
        MetricKeys(process_metrics[i]) \cap override.keys # {} }

\* the standing overrides to Trusted made before the start of the tick that
\* published the stored snapshot
TrustedInForce ==
    { x \in override_log.standing : x.trust_level = "Trusted" /\ x.from_tick < tick }

AutomaticRunStored ==
    /\ last_response.kind = "ok"
    /\ last_response.automatic
    /\ last_response.dispatched

\* C40: the cooldown entry of (pid, action type) is written, with the time of
\* the call, exactly by an automatic run that reached the actuator and whose
\* record the response store wrote, whether the actuator succeeded or failed;
\* every other step leaves the cooldown map as it was, and a manual run is
\* never rejected by the cooldown guard.
C40_CooldownWrittenByStoredAutomaticRuns ==
    [][ /\ action_cooldowns' =
              IF AutomaticRunStored'
              THEN Put(action_cooldowns,
                       CooldownKey(last_response'.pid, last_response'.action_type), now)
              ELSE action_cooldowns
        /\ ~last_response'.automatic => last_response'.kind # "cooldown" ]_vars

\* an automatic run whose actuator failed wrote the cooldown entry, and the
\* response store holds its record
C40_Witness ==
    /\ AutomaticRunStored
    /\ ~Unwrap(last_response.exec).ok
    /\ action_cooldowns[CooldownKey(last_response.pid, last_response.action_type)]
           = last_response.at
    /\ \E i \in 1..Len(response_store) : response_store[i] = Unwrap(last_response.record)

\* a manual run reached the actuator while the cooldown entry of its pid and
\* action type, written by an automatic run, was younger than cooldown_seconds
C40_ManualWitness ==
    /\ last_response.kind = "ok"
    /\ ~last_response.automatic
    /\ CooldownKey(last_response.pid, last_response.action_type) \in DOMAIN action_cooldowns
    /\ ~is_action_allowed_by_cooldown(action_cooldowns, last_response.pid,
                                      last_response.action_type,
                                      last_response.policy.cooldown_seconds, last_response.at)

(***************************************************************************)
(* The metric an automatic response works on.                              *)
(***************************************************************************)
\* the latest call is the automatic run requested for the metric scored last
AutomaticRunOfTick ==
    /\ Called
    /\ last_response.automatic
    /\ IsSome(last_auto.metric)
    /\ IsSome(last_auto.requested)

\* the name, score and verdict of a record or event equal those of the metric
CarriesMetric(name, score, verdict, metric) ==
    /\ name = metric.name
    /\ score = metric.risk_score
    /\ verdict = metric.verdict

\* C32: the record and the response_action event of an automatic response
\* carry the name, risk score and verdict computed for the process in the tick
\* that requested the response, and the guards of the call (the safe-mode
\* check among them) read that tick's name and path.
C32_RecordCarriesTickMetric ==
    AutomaticRunOfTick =>
        LET scored == Unwrap(last_auto.metric) IN
        /\ IsSome(last_response.record) =>
               LET record == Unwrap(last_response.record) IN
               CarriesMetric(record.process_name, record.score, record.verdict, scored)
        /\ IsSome(last_response.event) =>
               LET event == Unwrap(last_response.event) IN
               /\ IsSome(event.process) /\ IsSome(event.risk_score) /\ IsSome(event.verdict)
               /\ CarriesMetric(Unwrap(event.process).image_name, Unwrap(event.risk_score),
                                Unwrap(event.verdict), scored)
        /\ IsSome(last_response.metric) =>
               /\ Unwrap(last_response.metric).name = scored.name
               /\ Unwrap(last_response.metric).exe_path = scored.exe_path

(***************************************************************************)
(* The verdict and the trust level of a stored metric.                     *)
(***************************************************************************)
MaliciousVerdicts == { "LikelyMalicious", "ConfirmedMalicious" }

\* C36: in the stored snapshot, after any sequence of ticks and trust-override
\* commands, a metric whose verdict is LikelyMalicious or ConfirmedMalicious
\* has trust_level Unknown and is not an internal process.
C36_MaliciousMeansUnknownTrust ==
    \A i \in 1..Len(process_metrics) :
        process_metrics[i].verdict \in MaliciousVerdicts
            => /\ process_metrics[i].trust_level = "Unknown"
               /\ ~is_internal_process(process_metrics[i])

(***************************************************************************)
(* process_start marks against process_started events                      *)
(***************************************************************************)
\* the tick that is ending recorded a process_start mark for the pid
MarkedThisTick(pid) ==
    /\ pid \in DOMAIN correlation.recent_process_start
    /\ correlation.recent_process_start[pid] = loop_started

\* the metric scored last, at the first tick, got the process_start bonus
FirstTickStartBonus ==
    /\ tick = 0
    /\ IsSome(last_auto.metric)
    /\ \E i \in 1..Len(last_auto.correlation_reasons) :
           last_auto.correlation_reasons[i] = R_START

\* C37: a tick records a process_start mark for a PID exactly when it emits a
\* process_started lifecycle event for that PID; the processes found at the
\* first tick, for which no lifecycle event is emitted, get no process_start
\* bonus.
C37_StartMarkWithStartedEvent ==
    /\ [][ last_tail'.ran =>
             \A pid \in LifecyclePids :
                 MarkedThisTick(pid)
                     <=> EmittedFor(last_tail', "process_started", pid) # {} ]_vars
    /\ [](~FirstTickStartBonus)

(***************************************************************************)
(* Registry events and the registry_change mark                            *)
(***************************************************************************)
\* the tail of the tick set the registry_change mark
RegistryMarked == correlation'.last_registry_change # correlation.last_registry_change

\* C38: the tail of a tick emits registry_value_added, _changed or _removed
\* events and sets the registry_change mark only when its registry sample
\* succeeded, an earlier sample had succeeded, and the two snapshots differ;
\* the first successful sample after startup emits no registry event and
\* sets no mark.
C38_RegistryEventsNeedTwoSamples ==
    [][ (last_tail'.ran /\ (EmittedBySensor(last_tail', "registry") # {} \/ RegistryMarked))
            => /\ SampleSucceeded(last_tail'.registry)
               /\ registry_sampled
               /\ Unwrap(last_tail'.registry).snapshot # previous_registry_values ]_vars

(***************************************************************************)
(* The forest of build_process_tree                                        *)
(***************************************************************************)
TreeCall == last_call.fn = "build_process_tree"

\* the pids of a forest, parents before children
RECURSIVE ForestPids(_)
ForestPids(nodes) ==
    IF nodes = <<>> THEN <<>>
    ELSE << Head(nodes).pid >> \o ForestPids(Head(nodes).children) \o ForestPids(Tail(nodes))

\* every child of every node of the forest names the node as its parent
RECURSIVE ParentLinks(_)
ParentLinks(nodes) ==
    \A i \in 1..Len(nodes) :
        /\ \A k \in 1..Len(nodes[i].children) :
               nodes[i].children[k].ppid = Some(nodes[i].pid)
        /\ ParentLinks(nodes[i].children)

Occurrences(pids, pid) == Cardinality({ i \in 1..Len(pids) : pids[i] = pid })

\* following ppid from the process leads, within steps links, to a process
\* whose ppid is missing from the list
RECURSIVE ReachesRoot(_, _, _)
ReachesRoot(list, pid, steps) ==
    IF pid \in TreeRoots(list) THEN TRUE
    ELSE IF steps = 0 THEN FALSE
    ELSE ReachesRoot(list, Unwrap(Unwrap(ByPid(list, pid)).ppid), steps - 1)

\* the roots of the forest are the processes whose ppid is missing or absent
RootsAsSpecified(list, nodes) ==
    { nodes[i].pid : i \in 1..Len(nodes) } = TreeRoots(list)

\* C39 as stated: build_process_tree returns, every pid of the list is in the
\* forest exactly once, every child names its parent, and the roots are the
\* processes whose ppid is absent from the list, also for a process that is
\* its own parent and for ppid links that form a cycle.
C39_AsWritten ==
    TreeCall =>
        /\ last_call.out.ok
        /\ \A i \in 1..Len(last_call.list) :
               Occurrences(ForestPids(last_call.out.nodes), last_call.list[i].pid) = 1
        /\ ParentLinks(last_call.out.nodes)
        /\ RootsAsSpecified(last_call.list, last_call.out.nodes)

\* C39, amended: build_process_tree returns, every child names its parent,
\* the roots are the processes whose ppid is absent from the list, and a pid
\* of the list is in the forest exactly once when its chain of ppid links
\* ends at such a root, and not at all when the chain ends in a process that
\* is its own parent or in a cycle.
C39_ForestOfRootedProcesses ==
    TreeCall =>
        /\ last_call.out.ok
        /\ \A i \in 1..Len(last_call.list) :
               Occurrences(ForestPids(last_call.out.nodes), last_call.list[i].pid)
                   = (IF ReachesRoot(last_call.list, last_call.list[i].pid,
                                     Len(last_call.list))
                      THEN 1 ELSE 0)
        /\ ParentLinks(last_call.out.nodes)
        /\ RootsAsSpecified(last_call.list, last_call.out.nodes)

\* a list with a root that has a child, and a process that is its own parent
C39_Witness ==
    /\ TreeCall
    /\ \E i \in 1..Len(last_call.list) :
           last_call.list[i].ppid = Some(last_call.list[i].pid)
    /\ \E k \in 1..Len(last_call.out.nodes) : last_call.out.nodes[k].children # <<>>

(***************************************************************************)
(* The tick loop and the UI as two threads over the locks of the runtime   *)
(* state: the loop stores snapshots, offers one alert, publishes events    *)
(* and runs automatic responses; the UI runs the commands of main.rs.      *)
(***************************************************************************)
ThreadLists ==
    { << Stub(1, CooldownImage) >>,
      << Stub(1, [ name |-> S_lsass, exe_path |-> None ]) >> }

\* the alert the loop offers: a CPU spike of pid 1, stamped when it is built
ThreadAlert == Unwrap(build_alert(Stub(1, CooldownImage), Stub(1, CooldownImage).suspicion,
                                  TRUE, now))

ThreadHorizon == ALERT_SUPPRESSION_SECONDS * SubSec

NoArg == [ none |-> TRUE ]

\* state.update_snapshot(tree, metrics.clone()) with tree = build_process_tree(&metrics)
BeginUpdateSnapshot(list) ==
    Begin("loop", "update_snapshot", [ metrics |-> list ],
          [ tree |-> build_process_tree(list).nodes ])

BeginAddAlert ==
    Begin("loop", "add_alert_if_new", [ alert |-> ThreadAlert, persist_ok |-> TRUE ], NoArg)

BeginDeleteAlert(alert_id) ==
    Begin("ui", "delete_alert", [ alert_id |-> alert_id, persist_ok |-> TRUE ],
          [ deleted_alert |-> None, dismissed_at |-> 0 ])

BeginAcknowledgeAlert(alert_id) ==
    Begin("ui", "acknowledge_alert", [ alert_id |-> alert_id, persist_ok |-> TRUE ], NoArg)

\* the number of trust overrides the UI makes
MaxThreadOverrides == 1

BeginTrustOverride(name, trust_level) ==
    /\ override_log.calls < MaxThreadOverrides
    /\ Enter("ui", "set_process_trust_override",
             [ path |-> None, name |-> name, trust_level |-> trust_level,
               label |-> None, persist_ok |-> TRUE ],
             NoArg, 1)

NextThreads ==
    \/ BeginUpdateSnapshot(<< Stub(1, CooldownImage) >>)
    \/ BeginAddAlert
    \/ Begin("loop", "push_event", NoArg, NoArg)
    \/ Begin("loop", "run_response_action", [ automatic |-> TRUE ], NoArg)
    \/ \E alert_id \in AlertIds : BeginDeleteAlert(alert_id)
    \/ \E alert_id \in AlertIds : BeginAcknowledgeAlert(alert_id)
    \/ BeginTrustOverride(CooldownImage.name, "Trusted")
    \/ Begin("ui", "set_response_policy", [ policy |-> secure_default ], NoArg)
    \/ Begin("ui", "run_response_action", [ automatic |-> FALSE ], NoArg)
    \/ Begin("ui", "get_process_tree", NoArg, NoArg)
    \/ Begin("ui", "get_process_metrics", NoArg, NoArg)
    \/ Begin("ui", "get_app_usage_history", NoArg, NoArg)
    \/ \E t \in Threads : Acquire(t)
    \/ \E t \in Threads : Release(t)
    \/ \E t \in Threads : Return(t)

SpecThreads == Init /\ [][NextThreads]_vars

\* a thread that is inside an operation keeps running, and a thread parked
\* on a lock that is released again and again gets it in the end; a thread
\* need not start another operation. Release(t) is enabled exactly when
\* AtRelease(t) holds and a Release(t) step ends it, so the last conjunct is
\* WF_vars(Release(t)) written without ENABLED.
ThreadFairness ==
    \A t \in Threads :
        /\ SF_vars(Acquire(t))
        /\ WF_vars(Return(t))
        /\ []<>(~AtRelease(t))

SpecThreadsFair == SpecThreads /\ ThreadFairness

(***************************************************************************)
(* update_snapshot of the loop against the trust override and the reads of *)
(* the UI.                                                                  *)
(***************************************************************************)
NextSnapshot ==
    \/ \E list \in ThreadLists : BeginUpdateSnapshot(list)
    \/ \E trust_level \in { "Trusted", "Unknown" } :
           BeginTrustOverride(CooldownImage.name, trust_level)
    \/ Begin("ui", "get_process_tree", NoArg, NoArg)
    \/ Begin("ui", "get_process_metrics", NoArg, NoArg)
    \/ \E t \in Threads : Acquire(t)
    \/ \E t \in Threads : Release(t)
    \/ \E t \in Threads : Return(t)

SpecSnapshot == Init /\ [][NextSnapshot]_vars

(***************************************************************************)
(* add_alert_if_new of the loop against the alert commands of the UI, with *)
(* a clock that can pass the end of the suppression window once.           *)
(***************************************************************************)
NextSuppression ==
    \/ AdvanceClock(ThreadHorizon, ThreadHorizon)
    \/ BeginAddAlert
    \/ \E alert_id \in AlertIds : BeginDeleteAlert(alert_id)
    \/ \E alert_id \in AlertIds : BeginAcknowledgeAlert(alert_id)
    \/ \E t \in Threads : Acquire(t)
    \/ \E t \in Threads : Release(t)
    \/ \E t \in Threads : Return(t)

SpecSuppression == Init /\ [][NextSuppression]_vars

(***************************************************************************)
(* Lock discipline of the runtime state                                    *)
(***************************************************************************)
\* C31: no operation of the runtime state, of the tick loop or of the UI,
\* holds two of the locks of the state at the same time: a thread that
\* acquires a lock has released every lock it took before.
C31_OneLockAtATime == \A t \in Threads : Cardinality(held[t]) <= 1

(***************************************************************************)
(* The stored snapshot: metrics and tree                                   *)
(***************************************************************************)
\* no thread is inside update_snapshot or set_process_trust_override
SnapshotQuiescent ==
    \A t \in Threads : threads[t].op \notin { "update_snapshot", "set_process_trust_override" }

\* C34: whenever neither update_snapshot nor a trust override is in
\* progress, the stored process tree is the tree built from the stored
\* metrics, for every interleaving of the update_snapshot of the loop with
\* a set_process_trust_override of the UI.
C34_TreeBuiltFromStoredMetrics ==
    SnapshotQuiescent => process_tree = build_process_tree(process_metrics).nodes

(***************************************************************************)
(* Suppression of deleted alerts against a concurrent add_alert_if_new     *)
(***************************************************************************)
\* the step appended an alert to the alert store
AlertPushed == Len(store') = Len(store) + 1

\* a delete_alert that returned true dismissed this signature less than
\* ALERT_SUPPRESSION_SECONDS ago
DeletedWithinWindow(sig) ==
    /\ sig \in DOMAIN dismiss_log
    /\ num_seconds(now - dismiss_log[sig]) < ALERT_SUPPRESSION_SECONDS

\* C35: once delete_alert has returned true for an active alert, no alert
\* with the same signature is added to the alert store during the following
\* 300 s, also when the add_alert_if_new of the loop for that signature runs
\* concurrently with the deletion.
C35_NoAddAfterDelete ==
    [][ AlertPushed => ~DeletedWithinWindow(alert_signature(store'[Len(store')])) ]_vars

(***************************************************************************)
(* Freedom from deadlock                                                   *)
(***************************************************************************)
\* t waits for a lock that u holds
WaitsFor(t, u) ==
    /\ Waiting(t)
    /\ \E x \in held[u] :
          /\ x[1] = AtStep(t).lock
          /\ AtStep(t).mode = "read" => x[2] = "write"

\* a set of threads each of which waits for a lock held inside the set
Deadlocked ==
    \E S \in (SUBSET Threads) \ { {} } : \A t \in S : \E u \in S : WaitsFor(t, u)

\* t has asked for a lock and has not got it yet; only the grant of the lock
\* takes the thread past this step
AtAcquire(t) == Running(t) /\ ~Returning(t) /\ AtStep(t).a = "acq"

Holds(t, lock) == \E x \in held[t] : x[1] = lock

\* C33: no interleaving of the tick loop with the commands of the UI (alert
\* acknowledge and delete, trust overrides, policy changes, manual response
\* actions, read queries) reaches a deadlock, and every lock acquisition on
\* the runtime state is granted in the end.
C33_NoDeadlock ==
    /\ [](~Deadlocked)
    /\ \A t \in Threads : AtAcquire(t) ~> ~AtAcquire(t)

\* the UI waits for the usage history while the loop holds it together with
\* known_pids
C33_Witness ==
    /\ Waiting("ui")
    /\ Holds("loop", "app_usage_history") /\ Holds("loop", "known_pids")

====
